---------------------------- MODULE Spec2Model ----------------------------
(***************************************************************************)
(* Model of the endurain auxiliary scripts:                                *)
(*   aux_scripts/clean_duplicates.py    (classification, sidecars,         *)
(*                                       duplicate resolution, main)       *)
(*   aux_scripts/convert_json_to_fit.py (FITWriter, convert_json_to_fit)   *)
(*                                                                         *)
(* File names and operator answers are sequences of one-character strings, *)
(* so that suffix tests, indexing, strip() and lower() are computed.       *)
(* Start timestamps are whole seconds.  The directory is listed with the   *)
(* case-sensitive matching of pathlib.glob on POSIX.                       *)
(***************************************************************************)
EXTENDS Integers, Sequences, FiniteSets, TLC

VARIABLES
    program,          \* which script the process runs
    \* ---- clean_duplicates.py ----
    dir,              \* ids of the files present in bulk_import_dir
    decode,           \* per binary file: what FitFile decoding yields
    scanOrder,        \* order in which the directory lists its entries
    tolerance,        \* args.tolerance
    dry_run,          \* args.dry_run
    pc,               \* position in main()
    response,         \* what the operator typed at the prompt
    json_sidecars, json_orphans, groups, health_files,
    files_to_keep, files_to_delete,
    k,                \* index of the next item of the running for-loop
    subdirs,          \* subdirectories created under bulk_import_dir
    readme,           \* names listed in unsupported_json_format/README.txt
    moved,            \* files renamed into a subdirectory: id :> subdirectory
    prior_run,        \* a confirmed run has gone through to "Done!" before
    interrupted,      \* a confirmed run was killed between two of its steps
    \* ---- convert_json_to_fit.py ----
    json,             \* the source record read by json.load
    conv_dry_run,     \* the dry_run argument of convert_json_to_fit
    cpc,              \* position in convert_json_to_fit
    records,          \* FITWriter.records: the blocks appended so far
    config,           \* what add_record_definition returned
    record_index,     \* i, the index of the next telemetry record
    written,          \* the file written at output_path, if any
    result,           \* what convert_json_to_fit returned
    sorted_json_files, \* main: sorted(json_files), as records
    to_convert,       \* main: the files the for-loop has yet to take
    success_count,    \* main: calls that returned True
    fail_count,       \* main: calls that returned False
    \* ---- functions applied to one argument ----
    classify_arg,     \* the argument of classify_source
    classify_ret,     \* what classify_source returned, if called
    geohash_arg,      \* the argument of geohash_to_latlon
    geohash_ret,      \* what geohash_to_latlon returned, if called
    \* ---- backend/app/computer_models/crud.py ----
    computer_models,  \* the rows of the table computer_models, by id
    computer_model    \* what get_or_create_computer_model_from_fit_data returned

cleanVars == <<dir, decode, scanOrder, tolerance, dry_run, pc, response,
               json_sidecars, json_orphans, groups, health_files,
               files_to_keep, files_to_delete, k, subdirs, readme, moved,
               prior_run, interrupted>>

convVars == <<json, conv_dry_run, cpc, records, config, record_index, written,
              result>>

convVars_but_cpc == <<json, conv_dry_run, records, config, record_index,
                      written, result>>

mainVars == <<sorted_json_files, to_convert, success_count, fail_count>>

registryVars == <<computer_models, computer_model>>

pureVars == <<classify_arg, classify_ret, geohash_arg, geohash_ret,
              registryVars>>

vars == <<program, cleanVars, convVars, mainVars, pureVars>>

-----------------------------------------------------------------------------
(* Bounds *)

\* start timestamps are drawn from 0..MaxTime
MaxTime == 2
\* --tolerance is drawn from 0..MaxTol
MaxTol == 1
\* the HeartRate series of a source record has up to MaxLen entries
MaxLen == 3
\* most JSON files in the input directory of one run of the converter
MaxFiles == 3
\* the longest geohash a call of geohash_to_latlon is given
MaxHashLen == 21
\* most rows of the table computer_models
MaxRows == 3

-----------------------------------------------------------------------------
(* Strings *)

\* an optional value: None, or Some(v) holding v
None == <<>>
Some(v) == <<v>>
Val(o) == o[1]

Max(a, b) == IF a >= b THEN a ELSE b

Abs(x) == IF x < 0 THEN -x ELSE x

Range(s) == {s[i] : i \in DOMAIN s}

\* str.lower() on one character (the letters that occur in the model)
LowerChar(c) ==
    CASE c = "F" -> "f" [] c = "I" -> "i" [] c = "T" -> "t"
      [] c = "R" -> "r" [] c = "Y" -> "y" [] c = "E" -> "e"
      [] c = "S" -> "s" [] c = "J" -> "j" [] c = "O" -> "o"
      [] c = "N" -> "n" [] c = "G" -> "g"
      [] OTHER -> c

Lower(s) == [i \in DOMAIN s |-> LowerChar(s[i])]

IsSpace(c) == c \in {" ", "\t", "\n"}

RECURSIVE LStrip(_)
LStrip(s) == IF s # <<>> /\ IsSpace(Head(s)) THEN LStrip(Tail(s)) ELSE s

RECURSIVE RStrip(_)
RStrip(s) ==
    IF s # <<>> /\ IsSpace(s[Len(s)])
    THEN RStrip(SubSeq(s, 1, Len(s) - 1)) ELSE s

\* str.strip()
Strip(s) == RStrip(LStrip(s))

EndsWith(s, suffix) ==
    /\ Len(s) >= Len(suffix)
    /\ SubSeq(s, Len(s) - Len(suffix) + 1, Len(s)) = suffix

\* position of the last "." of the name, 0 if none
LastDot(s) ==
    LET dots == {i \in DOMAIN s : s[i] = "."}
    IN  IF dots = {} THEN 0 ELSE CHOOSE i \in dots : \A j \in dots : j <= i

\* Path.stem: the name without its last suffix
Stem(s) ==
    LET d == LastDot(s)
    IN  IF d <= 1 THEN s ELSE SubSeq(s, 1, d - 1)

-----------------------------------------------------------------------------
(* The files of the model *)

Names == <<
    <<"a","l","i","c","e","@","e","x","a","m","p","l","e",".","c","o","m","_","1","2","3",".","f","i","t">>,
    <<"2","0","2","4","-","0","1","-","0","1","-","0","8","_","0","0","-","7","7",".","f","i","t">>,
    <<"m","o","r","n","i","n","g",".","f","i","t">>,
    <<"R","u","n",".","F","I","T">>,
    <<"r","u","n",".","j","s","o","n">>,
    <<"t","r","a","i","l",".","j","s","o","n">> >>

Ids == DOMAIN Names

FileName(f) == Names[f]

\* bulk_import_dir.glob("*<suffix>"), in directory order
Glob(d, suffix) ==
    SelectSeq(scanOrder, LAMBDA f : f \in d /\ EndsWith(FileName(f), suffix))

FitSuffix == <<".","f","i","t">>
FitSuffixUpper == <<".","F","I","T">>
JsonSuffix == <<".","j","s","o","n">>
JsonSuffixUpper == <<".","J","S","O","N">>

IsFit(f) ==
    EndsWith(FileName(f), FitSuffix) \/ EndsWith(FileName(f), FitSuffixUpper)

IsJson(f) ==
    EndsWith(FileName(f), JsonSuffix) \/ EndsWith(FileName(f), JsonSuffixUpper)

FitIds == {f \in Ids : IsFit(f)}
JsonIds == {f \in Ids : IsJson(f)}

\* what decoding a binary file yields
Outcomes ==
    [kind : {"session"}, start : 0..MaxTime]
        \cup [kind : {"error", "nosession"}, start : {0}]

\* directory orders: the "*.fit" entries in any order, the others after them
DirOrders ==
    LET lower == {f \in Ids : EndsWith(FileName(f), FitSuffix)}
        rest  == SelectSeq([i \in Ids |-> i], LAMBDA f : f \notin lower)
        n     == Cardinality(lower)
    IN  {o \o rest : o \in {q \in [1..n -> lower] :
                               \A a, b \in 1..n : a # b => q[a] # q[b]}}

-----------------------------------------------------------------------------
(* clean_duplicates.py: classification *)

\* mutant: a decode error is not caught as a non-activity file
get_fit_start_time_ErrorAsActivity(f) ==
    IF decode[f].kind = "nosession" THEN None ELSE Some(decode[f].start)

\* get_fit_start_time: the session's start_time, None for a file without a
\* session and for a file whose decoding raises
get_fit_start_time(f) ==
    IF decode[f].kind = "session" THEN Some(decode[f].start) ELSE None

\* mutant: the date rule is tried before the "@" rule
classify_source_DateFirst(filename) ==
    IF Len(filename) > 10 /\ filename[5] = "-" /\ filename[8] = "-" THEN 2
    ELSE IF "@" \in Range(filename) THEN 1
    ELSE 3

\* classify_source: the priority of a file name (lower = preferred)
classify_source(filename) ==
    IF "@" \in Range(filename) THEN 1
    ELSE IF Len(filename) > 10 /\ filename[5] = "-" /\ filename[8] = "-" THEN 2
    ELSE 3

\* mutant: the stems are compared as they are written
find_json_files_CaseSensitive(d) ==
    LET json_files == Glob(d, JsonSuffix) \o Glob(d, JsonSuffixUpper)
        fit_files  == {Stem(FileName(f)) :
                          f \in Range(Glob(d, FitSuffix))
                                  \cup Range(Glob(d, FitSuffixUpper))}
        IsSidecar(j) == Stem(FileName(j)) \in fit_files
    IN  [sidecars |-> SelectSeq(json_files, IsSidecar),
         orphans  |-> SelectSeq(json_files, LAMBDA j : ~IsSidecar(j))]

\* find_json_files: (sidecars, orphans)
find_json_files(d) ==
    LET json_files == Glob(d, JsonSuffix) \o Glob(d, JsonSuffixUpper)
        fit_files  == {Lower(Stem(FileName(f))) :
                          f \in Range(Glob(d, FitSuffix))
                                  \cup Range(Glob(d, FitSuffixUpper))}
        IsSidecar(j) == Lower(Stem(FileName(j))) \in fit_files
    IN  [sidecars |-> SelectSeq(json_files, IsSidecar),
         orphans  |-> SelectSeq(json_files, LAMBDA j : ~IsSidecar(j))]

-----------------------------------------------------------------------------
(* clean_duplicates.py: duplicate resolution *)

\* list.sort(key=...): stable, ascending on the record field fld
RECURSIVE InsertBy(_, _, _)

\* mutant: an entry is put before the entries equal to it
InsertBy_BeforeEqual(s, x, fld) ==
    IF s = <<>> THEN <<x>>
    ELSE IF s[Len(s)][fld] < x[fld] THEN Append(s, x)
    ELSE Append(InsertBy(SubSeq(s, 1, Len(s) - 1), x, fld), s[Len(s)])

InsertBy(s, x, fld) ==
    IF s = <<>> THEN <<x>>
    ELSE IF s[Len(s)][fld] <= x[fld] THEN Append(s, x)
    ELSE Append(InsertBy(SubSeq(s, 1, Len(s) - 1), x, fld), s[Len(s)])

RECURSIVE SortBy(_, _)
SortBy(s, fld) ==
    IF s = <<>> THEN <<>>
    ELSE InsertBy(SortBy(SubSeq(s, 1, Len(s) - 1), fld), s[Len(s)], fld)

\* the scan of find_duplicates: every binary file is decoded once
ScanFits(d) ==
    LET fit_files == Glob(d, FitSuffix) \o Glob(d, FitSuffixUpper)
        IsActivity(f) == get_fit_start_time(f) # None
    IN  [file_times |->
            [i \in DOMAIN SelectSeq(fit_files, IsActivity) |->
                LET f == SelectSeq(fit_files, IsActivity)[i]
                IN  [path |-> f, time |-> Val(get_fit_start_time(f)),
                     priority |-> classify_source(FileName(f))]],
         health_files |-> SelectSeq(fit_files, LAMBDA f : ~IsActivity(f))]

\* mutant: the boundary is exclusive
WithinTolerance_Exclusive(timestamp, other_time, tolerance_seconds) ==
    Abs(timestamp - other_time) < tolerance_seconds

\* the test of the inner loop
WithinTolerance(timestamp, other_time, tolerance_seconds) ==
    Abs(timestamp - other_time) <= tolerance_seconds

\* the outer loop of find_duplicates from index i on; every pass yields the
\* anchors visited so far beside the groups
RECURSIVE GroupFrom(_, _, _, _, _)

\* mutant: the members of a group are not marked as used
GroupFrom_MembersUnused(file_times, tol, i, used, acc) ==
    IF i > Len(file_times) THEN acc
    ELSE IF i \in used THEN GroupFrom(file_times, tol, i + 1, used, acc)
    ELSE LET IsMember(j) ==
                 /\ j \notin used \cup {i}
                 /\ WithinTolerance(file_times[i].time, file_times[j].time, tol)
             others == SelectSeq([j \in DOMAIN file_times |-> j], IsMember)
             group  == <<file_times[i]>>
                           \o [n \in DOMAIN others |-> file_times[others[n]]]
         IN  GroupFrom(file_times, tol, i + 1,
                       used \cup {i},
                       [groups  |-> IF Len(group) > 1
                                    THEN Append(acc.groups,
                                                [timestamp |-> file_times[i].time,
                                                 group |-> group])
                                    ELSE acc.groups,
                        anchors |-> Append(acc.anchors, file_times[i].path)])

GroupFrom(file_times, tol, i, used, acc) ==
    IF i > Len(file_times) THEN acc
    ELSE IF i \in used THEN GroupFrom(file_times, tol, i + 1, used, acc)
    ELSE LET IsMember(j) ==
                 /\ j \notin used \cup {i}
                 /\ WithinTolerance(file_times[i].time, file_times[j].time, tol)
             others == SelectSeq([j \in DOMAIN file_times |-> j], IsMember)
             group  == <<file_times[i]>>
                           \o [n \in DOMAIN others |-> file_times[others[n]]]
         IN  GroupFrom(file_times, tol, i + 1,
                       used \cup {i} \cup Range(others),
                       [groups  |-> IF Len(group) > 1
                                    THEN Append(acc.groups,
                                                [timestamp |-> file_times[i].time,
                                                 group |-> group])
                                    ELSE acc.groups,
                        anchors |-> Append(acc.anchors, file_times[i].path)])

\* mutant: the files are grouped in scan order, file_times is not sorted
find_duplicates_Unsorted(d, tolerance_seconds) ==
    LET scan   == ScanFits(d)
        sorted == scan.file_times
        pass   == GroupFrom(sorted, tolerance_seconds, 1, {},
                            [groups |-> <<>>, anchors |-> <<>>])
    IN  [groups |-> pass.groups, health_files |-> scan.health_files,
         anchors |-> pass.anchors, file_times |-> sorted]

\* find_duplicates: (duplicate_groups, health_files), and the anchors
find_duplicates(d, tolerance_seconds) ==
    LET scan   == ScanFits(d)
        sorted == SortBy(scan.file_times, "time")
        pass   == GroupFrom(sorted, tolerance_seconds, 1, {},
                            [groups |-> <<>>, anchors |-> <<>>])
    IN  [groups |-> pass.groups, health_files |-> scan.health_files,
         anchors |-> pass.anchors, file_times |-> sorted]

\* mutant: every member of the group is marked, the survivor included
Resolve_DeleteAll(group) ==
    LET g == SortBy(group, "priority")
    IN  [keep |-> g[1].path, delete |-> [n \in DOMAIN g |-> g[n].path]]

\* mutant: the group is not sorted, the anchor survives
Resolve_Unsorted(group) ==
    [keep |-> group[1].path,
     delete |-> [n \in 1..(Len(group) - 1) |-> group[n + 1].path]]

\* the choice display_duplicates makes in one group
Resolve(group) ==
    LET g == SortBy(group, "priority")
    IN  [keep |-> g[1].path,
         delete |-> [n \in 1..(Len(g) - 1) |-> g[n + 1].path]]

RECURSIVE Concat(_)
Concat(ss) == IF ss = <<>> THEN <<>> ELSE Head(ss) \o Concat(Tail(ss))

\* display_duplicates: (files_to_keep, files_to_delete); group.sort() is in
\* place, so the caller's groups end up sorted by priority as well
display_duplicates(gs) ==
    [files_to_keep   |-> [n \in DOMAIN gs |-> Resolve(gs[n].group).keep],
     files_to_delete |-> Concat([n \in DOMAIN gs |-> Resolve(gs[n].group).delete]),
     groups          |-> [n \in DOMAIN gs |->
                             [timestamp |-> gs[n].timestamp,
                              group |-> SortBy(gs[n].group, "priority")]]]

-----------------------------------------------------------------------------
(* clean_duplicates.py: main *)

\* answers the operator may type at the prompt
Responses == {
    <<"y","e","s">>, <<" ","Y","E","S"," ">>, <<"n","o">>, <<"y">>, <<>> }

HealthDir == "health"
OrphanDir == "unsupported_json_format"

\* mutant: every answer but "no" confirms
Confirmed_UnlessNo(r) == Lower(Strip(r)) # <<"n","o">>

\* lines 355-357: the answer, stripped and lower-cased, is "yes"
Confirmed(r) == Lower(Strip(r)) = <<"y","e","s">>

\* lines 286-343: the analysis and its report, in dry-run and real runs alike
Report(dry) ==
    LET js   == find_json_files(dir)
        dup  == find_duplicates(dir, tolerance)
        disp == display_duplicates(dup.groups)
    IN  [json_sidecars   |-> js.sidecars,
         json_orphans    |-> js.orphans,
         groups          |-> disp.groups,
         health_files    |-> dup.health_files,
         files_to_keep   |-> disp.files_to_keep,
         files_to_delete |-> disp.files_to_delete]

Running == program = "clean_duplicates"

Analyse ==
    /\ Running /\ pc = "idle"
    /\ \E dry \in BOOLEAN :
        /\ dry_run' = dry
        /\ json_sidecars' = Report(dry).json_sidecars
        /\ json_orphans' = Report(dry).json_orphans
        /\ groups' = Report(dry).groups
        /\ health_files' = Report(dry).health_files
        /\ files_to_keep' = Report(dry).files_to_keep
        /\ files_to_delete' = Report(dry).files_to_delete
    /\ pc' = "summary"
    /\ UNCHANGED <<program, dir, decode, scanOrder, tolerance, response, k,
                   subdirs, readme, moved, prior_run, interrupted,
                   convVars, mainVars, pureVars>>

frame == <<program, decode, scanOrder, tolerance, dry_run, json_sidecars,
           json_orphans, groups, health_files, files_to_keep, files_to_delete,
           interrupted, convVars, mainVars, pureVars>>

\* lines 345-348
DryRunReturn ==
    /\ Running /\ pc = "summary" /\ dry_run
    /\ pc' = "done"
    /\ UNCHANGED <<frame, dir, response, k, subdirs, readme, moved, prior_run>>

NothingFound ==
    /\ json_sidecars = <<>> /\ json_orphans = <<>>
    /\ health_files = <<>> /\ files_to_delete = <<>>

\* lines 350-352
NothingToDo ==
    /\ Running /\ pc = "summary" /\ ~dry_run /\ NothingFound
    /\ pc' = "done"
    /\ UNCHANGED <<frame, dir, response, k, subdirs, readme, moved, prior_run>>

\* lines 354-359
Prompt ==
    /\ Running /\ pc = "summary" /\ ~dry_run /\ ~NothingFound
    /\ \E r \in Responses :
        /\ response' = r
        /\ pc' = IF Confirmed(r) THEN "del_sidecars" ELSE "done"
    /\ k' = 1
    /\ UNCHANGED <<frame, dir, subdirs, readme, moved, prior_run>>

\* lines 365-370, one iteration
DeleteSidecar ==
    /\ Running /\ pc = "del_sidecars" /\ k <= Len(json_sidecars)
    /\ dir' = dir \ {json_sidecars[k]}
    /\ k' = k + 1
    /\ UNCHANGED <<frame, pc, response, subdirs, readme, moved, prior_run>>

\* lines 371-387: the sidecar loop is over; mkdir and README for the orphans
EnterOrphans ==
    /\ Running /\ pc = "del_sidecars" /\ k > Len(json_sidecars)
    /\ IF json_orphans # <<>>
       THEN /\ subdirs' = subdirs \cup {OrphanDir}
            /\ readme' = {FileName(f) : f \in Range(json_orphans)}
       ELSE UNCHANGED <<subdirs, readme>>
    /\ pc' = "move_orphans"
    /\ k' = 1
    /\ UNCHANGED <<frame, dir, response, moved, prior_run>>

\* lines 389-395, one iteration
MoveOrphan ==
    /\ Running /\ pc = "move_orphans" /\ k <= Len(json_orphans)
    /\ dir' = dir \ {json_orphans[k]}
    /\ moved' = moved \cup {<<json_orphans[k], OrphanDir>>}
    /\ k' = k + 1
    /\ UNCHANGED <<frame, pc, response, subdirs, readme, prior_run>>

\* lines 396-403
EnterHealth ==
    /\ Running /\ pc = "move_orphans" /\ k > Len(json_orphans)
    /\ subdirs' = IF health_files # <<>> THEN subdirs \cup {HealthDir} ELSE subdirs
    /\ pc' = "move_health"
    /\ k' = 1
    /\ UNCHANGED <<frame, dir, response, readme, moved, prior_run>>

\* lines 404-410, one iteration
MoveHealth ==
    /\ Running /\ pc = "move_health" /\ k <= Len(health_files)
    /\ dir' = dir \ {health_files[k]}
    /\ moved' = moved \cup {<<health_files[k], HealthDir>>}
    /\ k' = k + 1
    /\ UNCHANGED <<frame, pc, response, subdirs, readme, prior_run>>

\* lines 411-416
EnterDuplicates ==
    /\ Running /\ pc = "move_health" /\ k > Len(health_files)
    /\ pc' = "del_dups"
    /\ k' = 1
    /\ UNCHANGED <<frame, dir, response, subdirs, readme, moved, prior_run>>

\* lines 417-423, one iteration
DeleteDuplicate ==
    /\ Running /\ pc = "del_dups" /\ k <= Len(files_to_delete)
    /\ dir' = dir \ {files_to_delete[k]}
    /\ k' = k + 1
    /\ UNCHANGED <<frame, pc, response, subdirs, readme, moved, prior_run>>

\* line 425
Finish ==
    /\ Running /\ pc = "del_dups" /\ k > Len(files_to_delete)
    /\ pc' = "done"
    /\ prior_run' = TRUE
    /\ UNCHANGED <<frame, dir, response, k, subdirs, readme, moved>>

\* the script is started again on the directory as it was left
Rerun ==
    /\ Running /\ pc = "done"
    /\ pc' = "idle"
    /\ dry_run' = FALSE
    /\ response' = <<>>
    /\ json_sidecars' = <<>> /\ json_orphans' = <<>>
    /\ groups' = <<>> /\ health_files' = <<>>
    /\ files_to_keep' = <<>> /\ files_to_delete' = <<>>
    /\ k' = 1
    /\ UNCHANGED <<program, dir, decode, scanOrder, tolerance, subdirs, readme,
                   moved, prior_run, interrupted, convVars, mainVars,
                   pureVars>>

\* lines 361-423: the process of a confirmed run is killed between two of
\* its file operations, before the last deletion, and the script is started
\* again on the directory as it was left
Interrupt ==
    /\ Running /\ ~interrupted /\ ~prior_run
    /\ pc \in {"del_sidecars", "move_orphans", "move_health", "del_dups"}
    /\ pc = "del_dups" => k <= Len(files_to_delete)
    /\ interrupted' = TRUE
    /\ pc' = "idle"
    /\ dry_run' = FALSE
    /\ response' = <<>>
    /\ json_sidecars' = <<>> /\ json_orphans' = <<>>
    /\ groups' = <<>> /\ health_files' = <<>>
    /\ files_to_keep' = <<>> /\ files_to_delete' = <<>>
    /\ k' = 1
    /\ UNCHANGED <<program, dir, decode, scanOrder, tolerance, subdirs, readme,
                   moved, prior_run, convVars, mainVars, pureVars>>

CleanIdle ==
    /\ dry_run = FALSE /\ pc = "idle" /\ response = <<>>
    /\ json_sidecars = <<>> /\ json_orphans = <<>>
    /\ groups = <<>> /\ health_files = <<>>
    /\ files_to_keep = <<>> /\ files_to_delete = <<>>
    /\ k = 1 /\ subdirs = {} /\ readme = {} /\ moved = {}
    /\ prior_run = FALSE /\ interrupted = FALSE

-----------------------------------------------------------------------------
(* convert_json_to_fit.py: field encoding *)

\* seconds between the Unix epoch and FIT_EPOCH (1989-12-31T00:00:00Z)
FitEpochOffset == 631065600

\* mutant: the Unix time is written as it is
unix_to_fit_timestamp_Unix(unix_ts) == unix_ts

\* unix_to_fit_timestamp
unix_to_fit_timestamp(unix_ts) == unix_ts - FitEpochOffset

\* base types
Enum == 0
SInt8 == 1
UInt8 == 2
SInt16 == 131
UInt16 == 132
SInt32 == 133
UInt32 == 134

\* little-endian bytes of v, 0 <= v < 2^31
RECURSIVE LEBytes(_, _)
LEBytes(v, n) == IF n = 0 THEN <<>> ELSE <<v % 256>> \o LEBytes(v \div 256, n - 1)

\* the n low bytes of the two's complement of v, -2^31 <= v < 2^31
TwosComplement(v, n) ==
    IF v >= 0 THEN LEBytes(v, n)
    ELSE LET low == LEBytes(v + 2147483647 + 1, 4)
             all == <<low[1], low[2], low[3], low[4] + 128>>
         IN  SubSeq(all, 1, n)

Packed(bytes) == [ok |-> TRUE, bytes |-> bytes]
\* struct.error: the value does not fit the format
StructError == [ok |-> FALSE, bytes |-> <<>>]

\* mutant: a value of 0 is taken for a missing one ("if not value")
_encode_field_ZeroAsAbsent(value, base_type) ==
    IF value = None \/ Val(value) = 0
    THEN CASE base_type = SInt8  -> Packed(<<127>>)
           [] base_type = SInt16 -> Packed(<<255, 127>>)
           [] base_type = UInt16 -> Packed(<<255, 255>>)
           [] base_type = SInt32 -> Packed(<<255, 255, 255, 127>>)
           [] base_type = UInt32 -> Packed(<<255, 255, 255, 255>>)
           [] OTHER              -> Packed(<<255>>)
    ELSE IF base_type \in {SInt8} /\ (Val(value) < -128 \/ Val(value) > 127)
    THEN StructError
    ELSE Packed(TwosComplement(Val(value),
                    CASE base_type \in {SInt16, UInt16} -> 2
                      [] base_type \in {SInt32, UInt32} -> 4
                      [] OTHER -> 1))

\* FITWriter._encode_field; value is None or Some(integer)
_encode_field(value, base_type) ==
    IF value = None
    THEN CASE base_type = Enum   -> Packed(<<255>>)
           [] base_type = SInt8  -> Packed(<<127>>)
           [] base_type = UInt8  -> Packed(<<255>>)
           [] base_type = SInt16 -> Packed(<<255, 127>>)
           [] base_type = UInt16 -> Packed(<<255, 255>>)
           [] base_type = SInt32 -> Packed(<<255, 255, 255, 127>>)
           [] base_type = UInt32 -> Packed(<<255, 255, 255, 255>>)
           [] OTHER              -> Packed(<<255>>)
    ELSE LET v == Val(value)
         IN  CASE base_type = Enum   -> Packed(TwosComplement(v, 1))
               [] base_type = SInt8  ->
                    IF v >= -128 /\ v <= 127
                    THEN Packed(TwosComplement(v, 1)) ELSE StructError
               [] base_type = UInt8  -> Packed(TwosComplement(v, 1))
               [] base_type = SInt16 ->
                    IF v >= -32768 /\ v <= 32767
                    THEN Packed(TwosComplement(v, 2)) ELSE StructError
               [] base_type = UInt16 -> Packed(TwosComplement(v, 2))
               [] base_type = SInt32 -> Packed(TwosComplement(v, 4))
               [] base_type = UInt32 -> Packed(TwosComplement(v, 4))
               [] OTHER              -> Packed(TwosComplement(v, 1))

\* data += ... over a list of (value, base_type): the block, or the error
EncodeAll(fields) ==
    LET encoded == [n \in DOMAIN fields |->
                        _encode_field(fields[n][1], fields[n][2])]
    IN  IF \A n \in DOMAIN encoded : encoded[n].ok
        THEN Packed(Concat([n \in DOMAIN encoded |-> encoded[n].bytes]))
        ELSE StructError

\* a definition block: header 0x40|slot, reserved, architecture, global
\* message number (2 bytes), number of fields, (number, size, base type)...
DefinitionBlock(slot, global, fields) ==
    <<64 + slot, 0, 0, global, 0, Len(fields)>> \o Concat(fields)

\* a data block: header slot, then the encoded fields
DataBlock(slot, fields) ==
    LET e == EncodeAll(fields)
    IN  IF e.ok THEN Packed(<<slot>> \o e.bytes) ELSE StructError

-----------------------------------------------------------------------------
(* convert_json_to_fit.py: FITWriter messages *)

\* add_file_id(timestamp): the blocks it appends
add_file_id(timestamp) ==
    <<Packed(DefinitionBlock(0, 0,
          <<<<0, 1, Enum>>, <<1, 2, UInt16>>, <<2, 2, UInt16>>,
            <<3, 4, UInt32>>, <<4, 4, UInt32>>>>)),
      DataBlock(0, <<<<Some(4), Enum>>, <<Some(1), UInt16>>, <<Some(1), UInt16>>,
                     <<Some(12345), UInt32>>, <<Some(timestamp), UInt32>>>>)>>

\* add_event(timestamp, event, event_type): the blocks it appends
add_event(timestamp, event, event_type) ==
    <<Packed(DefinitionBlock(1, 21,
          <<<<253, 4, UInt32>>, <<0, 1, Enum>>, <<1, 1, Enum>>>>)),
      DataBlock(1, <<<<Some(timestamp), UInt32>>, <<Some(event), Enum>>,
                     <<Some(event_type), Enum>>>>)>>

\* mutant: the record definition is emitted under the event's local slot
add_record_definition_WrongSlot(cfg) ==
    <<Packed(DefinitionBlock(1, 20, <<<<253, 4, UInt32>>>>))>>

\* add_record_definition(has_hr, ...): the block it appends
add_record_definition(cfg) ==
    LET fields ==
            <<<<253, 4, UInt32>>>>
            \o (IF cfg.has_gps THEN <<<<0, 4, SInt32>>, <<1, 4, SInt32>>>> ELSE <<>>)
            \o (IF cfg.has_hr THEN <<<<3, 1, UInt8>>>> ELSE <<>>)
            \o (IF cfg.has_cadence THEN <<<<4, 1, UInt8>>>> ELSE <<>>)
            \o (IF cfg.has_power THEN <<<<7, 2, UInt16>>>> ELSE <<>>)
            \o (IF cfg.has_temperature THEN <<<<13, 1, SInt8>>>> ELSE <<>>)
    IN  <<Packed(DefinitionBlock(2, 20, fields))>>

\* A Python float of the decoder is a record [neg, mag]: the number
\* (-1)^neg * mag * 2^-60, mag being three digits of base 2^24, lowest first.
\* Every bound and midpoint of a geohash of up to 24 characters is such a
\* number below 2^69.
Limb == 2 ^ 24

\* the float of a whole number of degrees, -4095..4095
Float(degrees) ==
    [neg |-> degrees < 0,
     mag |-> <<0, 0, 4096 * (IF degrees < 0 THEN -degrees ELSE degrees)>>]

MagAdd(x, y) ==
    LET s0 == x[1] + y[1]
        s1 == x[2] + y[2] + (s0 \div Limb)
    IN  <<s0 % Limb, s1 % Limb, x[3] + y[3] + (s1 \div Limb)>>

\* x - y for x >= y
MagSub(x, y) ==
    LET d0 == x[1] - y[1]
        d1 == x[2] - y[2] - (IF d0 < 0 THEN 1 ELSE 0)
    IN  <<d0 % Limb, d1 % Limb, x[3] - y[3] - (IF d1 < 0 THEN 1 ELSE 0)>>

MagLess(x, y) ==
    \/ x[3] < y[3]
    \/ x[3] = y[3] /\ x[2] < y[2]
    \/ x[3] = y[3] /\ x[2] = y[2] /\ x[1] < y[1]

\* the number of binary digits of n >= 0
RECURSIVE BitLength(_)
BitLength(n) == IF n = 0 THEN 0 ELSE 1 + BitLength(n \div 2)

\* body(value), the value being computed once
Bind(value, body(_)) == CHOOSE r \in {body(v) : v \in {value}} : TRUE

\* a float holds 53 binary digits: the result of an operation is rounded to
\* the nearest such number, and to the even one of two equally near
Round53(x) ==
    Bind(IF x[3] > 0 THEN 48 + BitLength(x[3])
         ELSE IF x[2] > 0 THEN 24 + BitLength(x[2])
         ELSE BitLength(x[1]),
         LAMBDA digits :
             IF digits <= 53 THEN x
             ELSE Bind(2 ^ (digits - 53),
                       LAMBDA unit :
                           LET rest == x[1] % unit
                               down == <<x[1] - (x[1] % unit), x[2], x[3]>>
                           IN  IF 2 * rest > unit
                                    \/ (2 * rest = unit /\ (x[1] \div unit) % 2 = 1)
                               THEN MagAdd(down, <<unit, 0, 0>>)
                               ELSE down))

\* a + b on floats
FloatAdd(a, b) ==
    Bind(IF a.neg = b.neg
         THEN [neg |-> a.neg, mag |-> MagAdd(a.mag, b.mag)]
         ELSE IF MagLess(a.mag, b.mag)
         THEN [neg |-> b.neg, mag |-> MagSub(b.mag, a.mag)]
         ELSE [neg |-> a.neg, mag |-> MagSub(a.mag, b.mag)],
         LAMBDA sum : [neg |-> sum.neg /\ sum.mag # <<0, 0, 0>>,
                       mag |-> Round53(sum.mag)])

\* (a + b) / 2 on floats; the division by 2 is exact
Midpoint(a, b) ==
    Bind(FloatAdd(a, b),
         LAMBDA sum :
             [neg |-> sum.neg,
              mag |-> <<(sum.mag[1] \div 2) + (sum.mag[2] % 2) * (Limb \div 2),
                        (sum.mag[2] \div 2) + (sum.mag[3] % 2) * (Limb \div 2),
                        sum.mag[3] \div 2>>])

\* int((degrees / 180.0) * 2147483648): mag / (45 * 2^31) without its
\* fraction, with the sign. The quotient degrees / 180.0 has at most 53
\* binary digits, and so is exact, for the position of every geohash of up
\* to 11 characters.
Semicircles(degrees) ==
    LET x  == degrees.mag
        q3 == x[3] \div 45
        t2 == (x[3] % 45) * Limb + x[2]
        q2 == t2 \div 45
        whole == q3 * (2 ^ 17) + (q2 \div (2 ^ 7))
    IN  IF degrees.neg THEN -whole ELSE whole

\* mutant: the cadence is written before the heart rate
add_record_CadenceFirst(timestamp, cfg, sample) ==
    LET lat_semi == IF sample.lat # None THEN Some(Semicircles(Val(sample.lat))) ELSE None
        lon_semi == IF sample.lon # None THEN Some(Semicircles(Val(sample.lon))) ELSE None
        fields ==
            <<<<Some(timestamp), UInt32>>>>
            \o (IF cfg.has_gps THEN <<<<lat_semi, SInt32>>, <<lon_semi, SInt32>>>> ELSE <<>>)
            \o (IF cfg.has_cadence THEN <<<<sample.cadence, UInt8>>>> ELSE <<>>)
            \o (IF cfg.has_hr THEN <<<<sample.heart_rate, UInt8>>>> ELSE <<>>)
            \o (IF cfg.has_power THEN <<<<sample.power, UInt16>>>> ELSE <<>>)
            \o (IF cfg.has_temperature THEN <<<<sample.temperature, SInt8>>>> ELSE <<>>)
    IN  <<DataBlock(2, fields)>>

\* add_record(timestamp, config, ...): the block it appends; a sample is a
\* record of optional values
add_record(timestamp, cfg, sample) ==
    LET lat_semi == IF sample.lat # None THEN Some(Semicircles(Val(sample.lat))) ELSE None
        lon_semi == IF sample.lon # None THEN Some(Semicircles(Val(sample.lon))) ELSE None
        fields ==
            <<<<Some(timestamp), UInt32>>>>
            \o (IF cfg.has_gps THEN <<<<lat_semi, SInt32>>, <<lon_semi, SInt32>>>> ELSE <<>>)
            \o (IF cfg.has_hr THEN <<<<sample.heart_rate, UInt8>>>> ELSE <<>>)
            \o (IF cfg.has_cadence THEN <<<<sample.cadence, UInt8>>>> ELSE <<>>)
            \o (IF cfg.has_power THEN <<<<sample.power, UInt16>>>> ELSE <<>>)
            \o (IF cfg.has_temperature THEN <<<<sample.temperature, SInt8>>>> ELSE <<>>)
    IN  <<DataBlock(2, fields)>>

\* Python truth of an optional number: neither None nor 0
Truthy(o) == o # None /\ Val(o) # 0

\* int(x * scale) if x else None, for 0 <= x < 2^31 and scale <= 1000. The
\* product is kept as the signed 32-bit number with the same low 32 bits,
\* which is all that `value & 0xFFFFFFFF` of _encode_field lets through.
Scaled(o, scale) ==
    IF Truthy(o)
    THEN LET lo == (Val(o) % 65536) * scale
             hi == ((Val(o) \div 65536) * scale + (lo \div 65536)) % 65536
         IN  Some((IF hi >= 32768 THEN hi - 65536 ELSE hi) * 65536 + (lo % 65536))
    ELSE None

\* add_session(timestamp, start_time, ...): the blocks it appends
add_session(timestamp, start_time, total_elapsed_time, total_timer_time, sport, sub_sport, total_distance, total_calories, avg_heart_rate, max_heart_rate, avg_cadence, avg_power) ==
    <<Packed(DefinitionBlock(3, 18,
          <<<<253, 4, UInt32>>, <<2, 4, UInt32>>, <<7, 4, UInt32>>,
            <<8, 4, UInt32>>, <<5, 1, Enum>>, <<6, 1, Enum>>,
            <<9, 4, UInt32>>, <<11, 2, UInt16>>, <<16, 1, UInt8>>,
            <<17, 1, UInt8>>, <<18, 1, UInt8>>, <<20, 2, UInt16>>>>)),
      DataBlock(3, <<<<Some(timestamp), UInt32>>, <<Some(start_time), UInt32>>,
                     <<Scaled(total_elapsed_time, 1000), UInt32>>,
                     <<Scaled(total_timer_time, 1000), UInt32>>,
                     <<Some(sport), Enum>>, <<Some(sub_sport), Enum>>,
                     <<Scaled(total_distance, 100), UInt32>>,
                     <<total_calories, UInt16>>, <<avg_heart_rate, UInt8>>,
                     <<max_heart_rate, UInt8>>, <<avg_cadence, UInt8>>,
                     <<avg_power, UInt16>>>>)>>

\* add_activity(timestamp, total_timer_time): the blocks it appends
add_activity(timestamp, total_timer_time) ==
    <<Packed(DefinitionBlock(4, 34,
          <<<<253, 4, UInt32>>, <<0, 4, UInt32>>, <<1, 2, UInt16>>,
            <<2, 1, Enum>>>>)),
      DataBlock(4, <<<<Some(timestamp), UInt32>>,
                     <<Scaled(total_timer_time, 1000), UInt32>>,
                     <<Some(1), UInt16>>, <<Some(0), Enum>>>>)>>

\* a ^ b on non-negative integers, bit by bit
RECURSIVE XorBits(_, _)
XorBits(a, b) ==
    IF a = 0 THEN b
    ELSE IF b = 0 THEN a
    ELSE ((a + b) % 2) + (2 * XorBits(a \div 2, b \div 2))

\* a ^ b for a, b in 0..15
XorHalfByte == [a \in 0..15 |-> [b \in 0..15 |-> XorBits(a, b)]]

\* a ^ b for a, b in 0..65535
Xor(a, b) ==
    XorHalfByte[a % 16][b % 16]
    + 16 * XorHalfByte[(a \div 16) % 16][(b \div 16) % 16]
    + 256 * XorHalfByte[(a \div 256) % 16][(b \div 256) % 16]
    + 4096 * XorHalfByte[a \div 4096][b \div 4096]

\* crc_table of _crc16
crc_table ==
    <<0, 52225, 55297, 5120, 61441, 15360, 10240, 58369,
      40961, 27648, 30720, 46081, 20480, 39937, 34817, 17408>>

\* the two assignments to crc for one half of a byte:
\* tmp = crc_table[crc & 0xF]; crc = (crc >> 4) & 0x0FFF;
\* crc = crc ^ tmp ^ crc_table[half]
Crc16Half(crc, half) ==
    Xor(Xor((crc \div 16) % 4096, crc_table[(crc % 16) + 1]),
        crc_table[half + 1])

\* one turn of the loop of _crc16: the low half of the byte, then the high;
\* each value of crc is computed once and bound
Crc16Byte(crc, byte) ==
    CHOOSE high \in {Crc16Half(low, (byte \div 16) % 16) :
                        low \in {Crc16Half(c, byte % 16) : c \in {crc}}} : TRUE

\* the loop of _crc16 over the bytes lo..hi of data, entered with crc
RECURSIVE Crc16Over(_, _, _, _)
Crc16Over(data, lo, hi, crc) ==
    IF lo > hi THEN crc
    ELSE IF lo = hi THEN Crc16Byte(crc, data[lo])
    ELSE CHOOSE right \in
             {Crc16Over(data, ((lo + hi) \div 2) + 1, hi, left) :
                  left \in {Crc16Over(data, lo, (lo + hi) \div 2, crc)}} : TRUE

\* FITWriter._crc16
_crc16(data) ==
    CHOOSE crc \in {Crc16Over(bytes, 1, Len(bytes), 0) : bytes \in {data}} : TRUE

\* mutant: the final checksum is taken over the 12 header bytes and the
\* messages
write_CrcOverHeader(recs) ==
    LET data_records == Concat(recs)
        header == <<14, 32, 8, 8>> \o LEBytes(Len(data_records), 4)
                      \o <<46, 70, 73, 84>>
    IN  header \o LEBytes(_crc16(header), 2) \o data_records
            \o LEBytes(_crc16(header \o data_records), 2)

\* FITWriter.write: the bytes of the file
write(recs) ==
    LET data_records == Concat(recs)
        data_size    == Len(data_records)
        header == <<14, 32, 8, 8>> \o LEBytes(data_size, 4)
                      \o <<46, 70, 73, 84>>
        header_crc == _crc16(header)
        data_crc   == _crc16(data_records)
    IN  header \o LEBytes(header_crc, 2) \o data_records
            \o LEBytes(data_crc, 2)

-----------------------------------------------------------------------------
(* convert_json_to_fit.py: geohash_to_latlon *)

base32 == <<"0","1","2","3","4","5","6","7","8","9","b","c","d","e","f","g",
            "h","j","k","m","n","p","q","r","s","t","u","v","w","x","y","z">>

\* base32.index(char)
Base32Index(c) == (CHOOSE i \in DOMAIN base32 : base32[i] = c) - 1

RECURSIVE GeohashBits(_, _, _)

\* mutant: the bits of a character are taken lowest first
GeohashBits_LowestFirst(val, i, at) ==
    LET bit == (val \div (2 ^ (4 - i))) % 2
        Halve(range) ==
            Bind(Midpoint(range[1], range[2]),
                 LAMBDA mid : IF bit = 1 THEN <<mid, range[2]>>
                              ELSE <<range[1], mid>>)
    IN  Bind(IF at.is_lon
             THEN [lat_range |-> at.lat_range, lon_range |-> Halve(at.lon_range),
                   is_lon |-> FALSE]
             ELSE [lat_range |-> Halve(at.lat_range), lon_range |-> at.lon_range,
                   is_lon |-> TRUE],
             LAMBDA next : IF i = 0 THEN next ELSE GeohashBits(val, i - 1, next))

\* the inner loop of geohash_to_latlon from bit i of val on; the ranges and
\* is_lon are the fields of at
GeohashBits(val, i, at) ==
    LET bit == (val \div (2 ^ i)) % 2
        Halve(range) ==
            Bind(Midpoint(range[1], range[2]),
                 LAMBDA mid : IF bit = 1 THEN <<mid, range[2]>>
                              ELSE <<range[1], mid>>)
    IN  Bind(IF at.is_lon
             THEN [lat_range |-> at.lat_range, lon_range |-> Halve(at.lon_range),
                   is_lon |-> FALSE]
             ELSE [lat_range |-> Halve(at.lat_range), lon_range |-> at.lon_range,
                   is_lon |-> TRUE],
             LAMBDA next : IF i = 0 THEN next ELSE GeohashBits(val, i - 1, next))

\* the outer loop of geohash_to_latlon from character n on
RECURSIVE GeohashFrom(_, _, _)
GeohashFrom(geohash, n, at) ==
    IF n > Len(geohash) THEN at
    ELSE IF geohash[n] \notin Range(base32)
    THEN GeohashFrom(geohash, n + 1, at)
    ELSE Bind(GeohashBits(Base32Index(geohash[n]), 4, at),
              LAMBDA next : GeohashFrom(geohash, n + 1, next))

\* mutant: a character outside the alphabet is decoded as "0"
geohash_to_latlon_InvalidAsZero(geohash) ==
    Bind(GeohashFrom([n \in DOMAIN geohash |->
                         IF Lower(geohash)[n] \in Range(base32)
                         THEN Lower(geohash)[n] ELSE "0"], 1,
                     [lat_range |-> <<Float(-90), Float(90)>>,
                      lon_range |-> <<Float(-180), Float(180)>>,
                      is_lon |-> TRUE]),
         LAMBDA r : [lat |-> Midpoint(r.lat_range[1], r.lat_range[2]),
                     lon |-> Midpoint(r.lon_range[1], r.lon_range[2])])

\* geohash_to_latlon: (lat, lon)
geohash_to_latlon(geohash) ==
    Bind(GeohashFrom(Lower(geohash), 1,
                     [lat_range |-> <<Float(-90), Float(90)>>,
                      lon_range |-> <<Float(-180), Float(180)>>,
                      is_lon |-> TRUE]),
         LAMBDA r : [lat |-> Midpoint(r.lat_range[1], r.lat_range[2]),
                     lon |-> Midpoint(r.lon_range[1], r.lon_range[2])])

-----------------------------------------------------------------------------
(* convert_json_to_fit.py: the source records of the model *)

\* all sequences over S of length 0..n
SeqsUpTo(S, n) == UNION {[1..m -> S] : m \in 0..n}

Summaries == {
    [distance |-> None, kcal |-> None, hrAvg |-> None, hrMax |-> None,
     cadence |-> None, power |-> None],
    [distance |-> Some(0), kcal |-> Some(0), hrAvg |-> Some(0),
     hrMax |-> Some(0), cadence |-> Some(0), power |-> Some(0)],
    [distance |-> Some(5000), kcal |-> Some(300), hrAvg |-> Some(140),
     hrMax |-> Some(170), cadence |-> Some(80), power |-> Some(200)] }

NoStream ==
    [Duration |-> <<>>, HeartRate |-> <<>>, Cadence |-> <<>>,
     PowerOriginal |-> <<>>, PowerCalculated |-> <<>>, Temperature |-> <<>>,
     Geohashes |-> <<>>]

DurationPool == {
    <<>>,
    <<Some(0), Some(1), Some(2)>>,
    <<None, None>>,
    <<Some(0), None, Some(5), Some(7)>> }

\* the channels other than Duration and HeartRate: none, each alone, both
\* power series, all of them, and a temperature that does not fit its field
OtherChannels ==
    LET none == [Cadence |-> <<>>, PowerOriginal |-> <<>>,
                 PowerCalculated |-> <<>>, Temperature |-> <<>>,
                 Geohashes |-> <<>>]
        cad  == <<Some(0), None, Some(80)>>
        orig == <<None, Some(0)>>
        calc == <<Some(250), Some(0), None>>
        temp == <<Some(0), Some(-5), None>>
        geo  == <<Some(<<"s">>), Some(<<>>), None, Some(<<"a">>)>>
    IN  {none,
         [none EXCEPT !.Cadence = cad],
         [none EXCEPT !.PowerOriginal = orig],
         [none EXCEPT !.PowerCalculated = calc],
         [none EXCEPT !.PowerOriginal = orig, !.PowerCalculated = calc],
         [none EXCEPT !.Temperature = temp],
         [none EXCEPT !.Temperature = <<Some(200)>>],
         [none EXCEPT !.Geohashes = geo],
         [Cadence |-> cad, PowerOriginal |-> orig, PowerCalculated |-> calc,
          Temperature |-> temp, Geohashes |-> geo],
         [Cadence |-> cad, PowerOriginal |-> <<>>, PowerCalculated |-> calc,
          Temperature |-> temp, Geohashes |-> geo]}

\* streams in which every channel varies
Streams ==
    {[Duration        |-> d,
      HeartRate       |-> h,
      Cadence         |-> o.Cadence,
      PowerOriginal   |-> o.PowerOriginal,
      PowerCalculated |-> o.PowerCalculated,
      Temperature     |-> o.Temperature,
      Geohashes       |-> o.Geohashes] :
     d \in DurationPool, h \in SeqsUpTo({None, Some(0), Some(120)}, MaxLen),
     o \in OtherChannels}

\* durations in seconds and distances in metres at the two ends of what 32
\* bits hold after scaling: 2^32 - 1 = 4294967295
LongDurations == {4294967, 4294968}
LongDistances == {42949672, 42949673}

\* Scenario B of the specification
ScenarioB ==
    [time |-> Some(1700000000), sport |-> Some("Running"),
     duration |-> Some(1800), elapsedTime |-> None,
     summary |-> CHOOSE x \in Summaries : x.kcal = None,
     stream |-> [NoStream EXCEPT !.HeartRate = <<Some(120), Some(125), None>>]]

\* records whose streams vary under fixed top-level fields, and records whose
\* top-level fields vary over a few streams
Inputs ==
    {[time |-> Some(1700000000), sport |-> Some("Running"), duration |-> d,
      elapsedTime |-> None, summary |-> CHOOSE x \in Summaries : x.kcal = None,
      stream |-> st] : d \in {None, Some(1800)}, st \in Streams}
    \cup
    [time        : {None, Some(0), Some(1700000000)},
     sport       : {None, Some("Running"), Some("Zumba")},
     duration    : {None, Some(0), Some(1800)},
     elapsedTime : {None, Some(60)},
     summary     : Summaries,
     stream      : {NoStream, ScenarioB.stream,
                    [NoStream EXCEPT !.Duration = <<Some(0), Some(1), Some(2)>>],
                    [NoStream EXCEPT !.Duration = <<None, None>>,
                                     !.HeartRate = <<Some(0), Some(120)>>]}]
    \cup {ScenarioB}
    \cup {[ScenarioB EXCEPT !.duration = Some(d)] : d \in LongDurations}
    \cup {[ScenarioB EXCEPT !.summary.distance = Some(d)] : d \in LongDistances}

-----------------------------------------------------------------------------
(* convert_json_to_fit.py: convert_json_to_fit *)

\* SPORT_MAP.get(sport_name, (0, 0)), sport_name = data.get('sport', 'Other')
SportOf(sport) ==
    LET sport_name == IF sport = None THEN "Other" ELSE Val(sport)
    IN  CASE sport_name = "Running"  -> <<1, 0>>
          [] sport_name = "Cycling"  -> <<2, 0>>
          [] sport_name = "Swimming" -> <<5, 0>>
          [] sport_name = "Walking"  -> <<11, 0>>
          [] sport_name = "Hiking"   -> <<17, 0>>
          [] sport_name = "Strength training" -> <<4, 20>>
          [] sport_name = "Indoor cycling" -> <<2, 6>>
          [] sport_name = "Flexibility training" -> <<4, 15>>
          [] sport_name = "Yoga"     -> <<4, 43>>
          [] sport_name = "Other"    -> <<0, 0>>
          [] sport_name = "Rowing"   -> <<15, 0>>
          [] sport_name = "Kayaking" -> <<41, 0>>
          [] sport_name = "Sailing"  -> <<32, 0>>
          [] sport_name = "Diving"   -> <<53, 0>>
          [] OTHER -> <<0, 0>>

\* a or b
Or(a, b) == IF Truthy(a) THEN a ELSE b

NonNull(series) == SelectSeq(series, LAMBDA v : v # None)

RECURSIVE MaxOf(_)
MaxOf(vals) ==
    IF Len(vals) = 1 THEN Val(vals[1])
    ELSE Max(Val(vals[1]), MaxOf(Tail(vals)))

\* lines 426-433: the resolved duration
DurationOf(data) ==
    LET duration_data == data.stream.Duration
        duration == Or(data.duration, data.elapsedTime)
    IN  IF ~Truthy(duration) /\ duration_data # <<>> /\ NonNull(duration_data) # <<>>
        THEN Some(MaxOf(NonNull(duration_data)))
        ELSE duration

\* lines 442-446
PowerData(data) ==
    IF data.stream.PowerOriginal # <<>>
    THEN data.stream.PowerOriginal ELSE data.stream.PowerCalculated

\* lines 449-453: what add_record_definition is called with
ConfigOf(data) ==
    [has_hr          |-> NonNull(data.stream.HeartRate) # <<>>,
     has_cadence     |-> NonNull(data.stream.Cadence) # <<>>,
     has_power       |-> NonNull(PowerData(data)) # <<>>,
     has_temperature |-> NonNull(data.stream.Temperature) # <<>>,
     has_gps         |-> \E n \in DOMAIN data.stream.Geohashes :
                             /\ data.stream.Geohashes[n] # None
                             /\ Val(data.stream.Geohashes[n]) # <<>>]

\* line 455
NumRecords(data) == Len(data.stream.Duration)

StartTime(data) == unix_to_fit_timestamp(Val(data.time))

\* mutant: entry n of the non-null entries, so that nulls shift the values
At_Compacted(has, series, n) ==
    IF has /\ n < Len(NonNull(series)) THEN NonNull(series)[n + 1] ELSE None

\* x[n] if has and n < len(x) and x[n] is not None else None (n counts from 0)
At(has, series, n) ==
    IF has /\ n < Len(series) /\ series[n + 1] # None THEN series[n + 1] ELSE None

\* lines 485-498: the timestamp and the values of record n (from 0)
SampleOf(data, cfg, n) ==
    LET duration_data == data.stream.Duration
        geohash_data  == data.stream.Geohashes
        located == /\ cfg.has_gps /\ n < Len(geohash_data)
                   /\ geohash_data[n + 1] # None
                   /\ Val(geohash_data[n + 1]) # <<>>
    IN  [record_time |->
             IF duration_data # <<>> /\ n < Len(duration_data)
                  /\ duration_data[n + 1] # None
             THEN StartTime(data) + Val(duration_data[n + 1])
             ELSE StartTime(data) + n,
         heart_rate  |-> At(cfg.has_hr, data.stream.HeartRate, n),
         cadence     |-> At(cfg.has_cadence, data.stream.Cadence, n),
         power       |-> At(cfg.has_power, PowerData(data), n),
         temperature |-> At(cfg.has_temperature, data.stream.Temperature, n),
         lat |-> IF located
                 THEN Some(geohash_to_latlon(Val(geohash_data[n + 1])).lat) ELSE None,
         lon |-> IF located
                 THEN Some(geohash_to_latlon(Val(geohash_data[n + 1])).lon) ELSE None]

\* lines 506-512: end_time, or the ValueError of max() over no value
EndTime(data) ==
    LET duration == DurationOf(data)
        duration_data == data.stream.Duration
    IN  IF Truthy(duration)
        THEN [ok |-> TRUE, value |-> StartTime(data) + Val(duration)]
        ELSE IF NumRecords(data) > 0 /\ duration_data # <<>>
        THEN IF NonNull(duration_data) = <<>>
             THEN [ok |-> FALSE, value |-> 0]
             ELSE [ok |-> TRUE,
                   value |-> StartTime(data) + MaxOf(NonNull(duration_data))]
        ELSE [ok |-> TRUE, value |-> StartTime(data)]

\* line 518: total_time
TotalTime(data) ==
    IF Truthy(DurationOf(data)) THEN DurationOf(data)
    ELSE Some(EndTime(data).value - StartTime(data))

\* int(x) if x else None
IntIf(o) == IF Truthy(o) THEN o ELSE None

Converting == program = "convert_json_to_fit"

\* the blocks are appended unless encoding one of them raised
Appended(blocks) == \A n \in DOMAIN blocks : blocks[n].ok
BytesOf(blocks) == [n \in DOMAIN blocks |-> blocks[n].bytes]

\* an exception reaches line 540: convert_json_to_fit returns False
Fails ==
    /\ cpc' = "returned"
    /\ result' = "False"
    /\ UNCHANGED <<records, config, record_index, written>>

\* the blocks an add_* call appended before the encoding of one raised
RECURSIVE AppendedBefore(_)
AppendedBefore(blocks) ==
    IF blocks = <<>> \/ ~blocks[1].ok THEN <<>>
    ELSE <<blocks[1].bytes>> \o AppendedBefore(Tail(blocks))

\* mutant: the blocks are put before the ones appended so far
Emit_Prepend(blocks, next) ==
    /\ records' = BytesOf(blocks) \o records
    /\ IF Appended(blocks)
       THEN cpc' = next /\ result' = result
       ELSE cpc' = "returned" /\ result' = "False"
    /\ UNCHANGED <<config, record_index, written>>

\* appends the blocks and goes on at next; when the encoding of a block
\* raises, the blocks before it stay appended and the call fails
Emit(blocks, next) ==
    IF Appended(blocks)
    THEN /\ records' = records \o BytesOf(blocks)
         /\ cpc' = next
         /\ UNCHANGED <<config, record_index, written, result>>
    ELSE /\ records' = records \o AppendedBefore(blocks)
         /\ cpc' = "returned"
         /\ result' = "False"
         /\ UNCHANGED <<config, record_index, written>>

\* lines 405-466: load, the skip of a record without time, the dry run
Load ==
    /\ Converting /\ cpc = "start"
    /\ IF ~Truthy(json.time)
       THEN cpc' = "returned" /\ result' = "False"
       ELSE IF conv_dry_run
       THEN cpc' = "returned" /\ result' = "True"
       ELSE cpc' = "file_id" /\ result' = result
    /\ UNCHANGED <<program, cleanVars, mainVars, pureVars, json, conv_dry_run,
                   records, config, record_index, written>>

\* line 469
AddFileId ==
    /\ Converting /\ cpc = "file_id"
    /\ Emit(add_file_id(StartTime(json)), "event_start")
    /\ UNCHANGED <<program, cleanVars, mainVars, pureVars, json, conv_dry_run>>

\* lines 472-475
AddStartEvent ==
    /\ Converting /\ cpc = "event_start"
    /\ Emit(add_event(StartTime(json), 0, 0),
            IF NumRecords(json) > 0 THEN "record_def" ELSE "event_stop")
    /\ UNCHANGED <<program, cleanVars, mainVars, pureVars, json, conv_dry_run>>

\* lines 476-482
AddRecordDefinition ==
    /\ Converting /\ cpc = "record_def"
    /\ records' = records \o BytesOf(add_record_definition(ConfigOf(json)))
    /\ config' = ConfigOf(json)
    /\ record_index' = 0
    /\ cpc' = "records"
    /\ UNCHANGED <<program, cleanVars, mainVars, pureVars, json, conv_dry_run,
                   written, result>>

\* lines 484-504, one iteration
AddRecord ==
    /\ Converting /\ cpc = "records" /\ record_index < NumRecords(json)
    /\ LET sample == SampleOf(json, config, record_index)
           blocks == add_record(sample.record_time, config, sample)
       IN  IF Appended(blocks)
           THEN /\ records' = records \o BytesOf(blocks)
                /\ record_index' = record_index + 1
                /\ UNCHANGED <<cpc, config, written, result>>
           ELSE Fails
    /\ UNCHANGED <<program, cleanVars, mainVars, pureVars, json, conv_dry_run>>

\* the loop is over
RecordsDone ==
    /\ Converting /\ cpc = "records" /\ record_index >= NumRecords(json)
    /\ cpc' = "event_stop"
    /\ UNCHANGED <<program, cleanVars, mainVars, pureVars, json, conv_dry_run,
                   records, config, record_index,
                   written, result>>

\* lines 506-515
AddStopEvent ==
    /\ Converting /\ cpc = "event_stop"
    /\ IF EndTime(json).ok
       THEN Emit(add_event(EndTime(json).value, 0, 4), "session")
       ELSE Fails
    /\ UNCHANGED <<program, cleanVars, mainVars, pureVars, json, conv_dry_run>>

\* lines 517-530
AddSession ==
    /\ Converting /\ cpc = "session"
    /\ \E end_time \in {EndTime(json).value}, total_time \in {TotalTime(json)} :
           Emit(add_session(end_time, StartTime(json), total_time, total_time,
                            SportOf(json.sport)[1], SportOf(json.sport)[2],
                            json.summary.distance, IntIf(json.summary.kcal),
                            IntIf(json.summary.hrAvg), IntIf(json.summary.hrMax),
                            IntIf(json.summary.cadence),
                            IntIf(json.summary.power)),
                "activity")
    /\ UNCHANGED <<program, cleanVars, mainVars, pureVars, json, conv_dry_run>>

\* line 533
AddActivity ==
    /\ Converting /\ cpc = "activity"
    /\ \E end_time \in {EndTime(json).value}, total_time \in {TotalTime(json)} :
           Emit(add_activity(end_time, total_time), "write")
    /\ UNCHANGED <<program, cleanVars, mainVars, pureVars, json, conv_dry_run>>

\* lines 536-538
Write ==
    /\ Converting /\ cpc = "write"
    /\ written' = Some(write(records))
    /\ result' = "True"
    /\ cpc' = "returned"
    /\ UNCHANGED <<program, cleanVars, mainVars, pureVars, json, conv_dry_run,
                   records, config, record_index>>

NoConfig ==
    [has_hr |-> FALSE, has_cadence |-> FALSE, has_power |-> FALSE,
     has_temperature |-> FALSE, has_gps |-> FALSE]

\* the locals of convert_json_to_fit when it is entered
ConvIdle ==
    /\ cpc = "start" /\ records = <<>>
    /\ config = NoConfig /\ record_index = 0 /\ written = None /\ result = "None"

\* main of convert_json_to_fit.py is not running
MainIdle ==
    /\ sorted_json_files = <<>> /\ to_convert = <<>>
    /\ success_count = 0 /\ fail_count = 0

\* no function is applied on its own
RegistryIdle == computer_models = <<>> /\ computer_model = None

PureIdle ==
    /\ classify_arg = <<>> /\ classify_ret = None
    /\ geohash_arg = <<>> /\ geohash_ret = None
    /\ RegistryIdle

-----------------------------------------------------------------------------
(* convert_json_to_fit.py: main *)

\* the records main is run on: one without time, Scenario B, and one whose
\* Duration series holds nulls only
MainInputs ==
    {[ScenarioB EXCEPT !.time = None],
     ScenarioB,
     [ScenarioB EXCEPT !.duration = None, !.stream.Duration = <<None, None>>]}

\* lines 590-595: the next file of sorted(json_files) is passed to
\* convert_json_to_fit, with its own output path
CallConvert ==
    /\ Converting /\ cpc = "main" /\ to_convert # <<>>
    /\ json' = Head(to_convert)
    /\ to_convert' = Tail(to_convert)
    /\ cpc' = "start"
    /\ records' = <<>> /\ config' = NoConfig /\ record_index' = 0
    /\ written' = None /\ result' = "None"
    /\ UNCHANGED <<program, cleanVars, pureVars, conv_dry_run, sorted_json_files,
                   success_count, fail_count>>

\* mutant: every call that returns is counted as converted
CountResult_AsSuccess ==
    /\ Converting /\ cpc = "returned"
    /\ success_count' = success_count + 1 /\ fail_count' = fail_count
    /\ cpc' = "main"
    /\ UNCHANGED <<program, cleanVars, pureVars, json, conv_dry_run, records,
                   config, record_index, written, result, sorted_json_files,
                   to_convert>>

\* lines 595-598: the call has returned and is counted
CountResult ==
    /\ Converting /\ cpc = "returned"
    /\ IF result = "True"
       THEN success_count' = success_count + 1 /\ fail_count' = fail_count
       ELSE fail_count' = fail_count + 1 /\ success_count' = success_count
    /\ cpc' = "main"
    /\ UNCHANGED <<program, cleanVars, pureVars, json, conv_dry_run, records,
                   config, record_index, written, result, sorted_json_files,
                   to_convert>>

\* mutant: a failed conversion ends the run
Summary_OnFailure ==
    /\ Converting /\ cpc = "main" /\ (to_convert = <<>> \/ fail_count > 0)
    /\ cpc' = "exit"
    /\ UNCHANGED <<program, cleanVars, pureVars, convVars_but_cpc, mainVars>>

\* lines 582-584 and 600-608: no file, or no file left: main ends
Summary ==
    /\ Converting /\ cpc = "main" /\ to_convert = <<>>
    /\ cpc' = "exit"
    /\ UNCHANGED <<program, cleanVars, pureVars, convVars_but_cpc, mainVars>>

-----------------------------------------------------------------------------
(* backend/app/computer_models/crud.py *)

\* A text is its sequence of characters; None and the empty text are both
\* <<>>, which the code tells apart nowhere: each is tested by its truth. A
\* row of the table is a record of id, manufacturer, product_code,
\* product_id and model_name; the table is the sequence of its rows by id.

\* get_computer_model_by_manufacturer_and_product_code: the rows the query
\* matches; .first() returns one of them, or None when there is none
get_computer_model_by_manufacturer_and_product_code(manufacturer, product_code, db) ==
    {row \in Range(db) : /\ row.manufacturer = Lower(manufacturer)
                         /\ row.product_code = Lower(product_code)}

\* get_computer_model_by_manufacturer_and_product_id, likewise
get_computer_model_by_manufacturer_and_product_id(manufacturer, product_id, db) ==
    {row \in Range(db) : /\ row.manufacturer = Lower(manufacturer)
                         /\ row.product_id = Some(product_id)}

\* get_or_create_computer_model_from_fit_data: the outcomes of a call, each
\* the table after it and the row returned
get_or_create_computer_model_from_fit_data(manufacturer, product_code, product_id, product_name, db) ==
    LET manufacturer_lower == Lower(manufacturer)
        by_code == IF product_code # <<>>
                   THEN get_computer_model_by_manufacturer_and_product_code(
                            manufacturer_lower, product_code, db)
                   ELSE {}
        by_id   == IF Truthy(product_id)
                   THEN get_computer_model_by_manufacturer_and_product_id(
                            manufacturer_lower, Val(product_id), db)
                   ELSE {}
        new_computer_model ==
            [id |-> Len(db) + 1, manufacturer |-> manufacturer_lower,
             product_code |-> Lower(product_code), product_id |-> product_id,
             model_name |-> product_name]
    IN  IF manufacturer_lower = <<>> THEN {[db |-> db, existing |-> None]}
        ELSE IF by_code # {}
        THEN {[db |-> db, existing |-> Some(row)] : row \in by_code}
        ELSE IF by_id # {}
        THEN {[db |-> db, existing |-> Some(row)] : row \in by_id}
        ELSE IF product_name # <<>>
        THEN {[db |-> Append(db, new_computer_model),
               existing |-> Some(new_computer_model)]}
        ELSE {[db |-> db, existing |-> None]}

\* what a FIT file may carry: manufacturer, product code, product id, name
FitData ==
    [manufacturer : {<<>>, <<"G", "a", "r", "m", "i", "n">>,
                     <<"s", "u", "u", "n", "t", "o">>},
     product_code : {<<>>, <<"F", "e", "n", "i", "x">>, <<"f", "e", "n", "i", "x">>},
     product_id   : {None, Some(0), Some(5)},
     product_name : {<<>>, <<"9">>}]

\* a call of get_or_create_computer_model_from_fit_data, the table holding
\* fewer than MaxRows rows
GetOrCreate ==
    /\ program = "computer_models" /\ Len(computer_models) < MaxRows
    /\ \E fit \in FitData :
           \E call \in get_or_create_computer_model_from_fit_data(
                           fit.manufacturer, fit.product_code, fit.product_id,
                           fit.product_name, computer_models) :
               /\ computer_models' = call.db
               /\ computer_model' = call.existing
    /\ UNCHANGED <<program, cleanVars, convVars, mainVars, classify_arg,
                   classify_ret, geohash_arg, geohash_ret>>

InitRegistry ==
    /\ program = "computer_models"
    /\ RegistryIdle
    /\ classify_arg = <<>> /\ classify_ret = None
    /\ geohash_arg = <<>> /\ geohash_ret = None
    /\ dir = {} /\ decode = <<>> /\ scanOrder = <<>> /\ tolerance = 0
    /\ CleanIdle
    /\ json = ScenarioB /\ conv_dry_run = FALSE /\ ConvIdle /\ MainIdle

\* calls of get_or_create_computer_model_from_fit_data on an empty table
SpecRegistry == InitRegistry /\ [][GetOrCreate]_vars

-----------------------------------------------------------------------------
(* Specifications *)

InitClean ==
    /\ program = "clean_duplicates"
    /\ dir = Ids
    /\ decode \in [FitIds -> Outcomes]
    /\ scanOrder \in DirOrders
    /\ tolerance \in 0..MaxTol
    /\ CleanIdle
    /\ json = ScenarioB /\ conv_dry_run = FALSE /\ ConvIdle
    /\ MainIdle /\ PureIdle

InitConvert ==
    /\ program = "convert_json_to_fit"
    /\ json \in Inputs
    /\ conv_dry_run \in BOOLEAN
    /\ ConvIdle /\ MainIdle /\ PureIdle
    /\ dir = {} /\ decode = <<>> /\ scanOrder = <<>> /\ tolerance = 0
    /\ CleanIdle

NextClean ==
    \/ Analyse \/ DryRunReturn \/ NothingToDo \/ Prompt
    \/ DeleteSidecar \/ EnterOrphans \/ MoveOrphan \/ EnterHealth
    \/ MoveHealth \/ EnterDuplicates \/ DeleteDuplicate \/ Finish \/ Rerun

NextConvert ==
    \/ Load \/ AddFileId \/ AddStartEvent \/ AddRecordDefinition \/ AddRecord
    \/ RecordsDone \/ AddStopEvent \/ AddSession \/ AddActivity \/ Write

\* find_json_files(bulk_import_dir), called on its own
FindJsonFiles ==
    /\ program = "find_json_files" /\ pc = "idle"
    /\ json_sidecars' = find_json_files(dir).sidecars
    /\ json_orphans' = find_json_files(dir).orphans
    /\ pc' = "found"
    /\ UNCHANGED <<program, dir, decode, scanOrder, tolerance, dry_run, response,
                   groups, health_files, files_to_keep, files_to_delete, k,
                   subdirs, readme, moved, prior_run, interrupted, convVars,
                   mainVars, pureVars>>

\* the directories find_json_files is called on: every part of the files
InitFindJsonFiles ==
    /\ program = "find_json_files"
    /\ dir \in SUBSET Ids
    /\ decode = [f \in FitIds |-> [kind |-> "session", start |-> 0]]
    /\ scanOrder \in DirOrders
    /\ tolerance = 0
    /\ CleanIdle
    /\ json = ScenarioB /\ conv_dry_run = FALSE /\ ConvIdle
    /\ MainIdle /\ PureIdle

\* a call of find_json_files
SpecFindJsonFiles == InitFindJsonFiles /\ [][FindJsonFiles]_vars

\* file names of 5 to 12 characters with "@" or "-" at the places the rules
\* of classify_source look at, and at the places next to them
ClassifyNames ==
    {[n \in 1..len |->
         CASE n = 1 -> c1 [] n = 4 -> c4 [] n = 5 -> c5
           [] n = 7 -> c7 [] n = 8 -> c8 [] OTHER -> "x"] :
     len \in {5, 8, 10, 11, 12}, c1 \in {"x", "@"}, c4 \in {"x", "-"},
     c5 \in {"x", "-", "@"}, c7 \in {"x", "-"}, c8 \in {"x", "-"}}

\* classify_source(filename), called on its own
Classify ==
    /\ program = "classify_source" /\ classify_ret = None
    /\ classify_ret' = Some(classify_source(classify_arg))
    /\ UNCHANGED <<program, cleanVars, convVars, mainVars, classify_arg,
                   geohash_arg, geohash_ret, registryVars>>

InitClassify ==
    /\ program = "classify_source"
    /\ classify_arg \in ClassifyNames /\ classify_ret = None
    /\ geohash_arg = <<>> /\ geohash_ret = None /\ RegistryIdle
    /\ dir = {} /\ decode = <<>> /\ scanOrder = <<>> /\ tolerance = 0
    /\ CleanIdle
    /\ json = ScenarioB /\ conv_dry_run = FALSE /\ ConvIdle /\ MainIdle

\* a call of classify_source
SpecClassify == InitClassify /\ [][Classify]_vars

\* geohashes of up to MaxHashLen characters: the south-west and the
\* north-east corner, the cell north-east of (0, 0), and a place in between
LongHashes ==
    LET place == <<"0", "n", "7", "q", "8", "j", "t", "5", "y", "u", "t", "m",
                   "f", "m", "8", "3", "7", "c", "g", "e", "v", "j", "k", "p">>
    IN  {[i \in 1..n |-> c] : c \in {"0", "z", "s"}, n \in 4..MaxHashLen}
            \cup {SubSeq(place, 1, n) : n \in 4..MaxHashLen}

\* strings of up to three characters: of the alphabet in either case, and
\* outside of it; and the long geohashes
GeohashStrings ==
    UNION {[1..n -> {"s", "S", "9", "z", "i", "I", "!"}] : n \in 0..3}
        \cup LongHashes

\* geohash_to_latlon(geohash), called on its own
Decode ==
    /\ program = "geohash_to_latlon" /\ geohash_ret = None
    /\ geohash_ret' = Some(geohash_to_latlon(geohash_arg))
    /\ UNCHANGED <<program, cleanVars, convVars, mainVars, classify_arg,
                   classify_ret, geohash_arg, registryVars>>

InitDecode ==
    /\ program = "geohash_to_latlon"
    /\ geohash_arg \in GeohashStrings /\ geohash_ret = None
    /\ classify_arg = <<>> /\ classify_ret = None /\ RegistryIdle
    /\ dir = {} /\ decode = <<>> /\ scanOrder = <<>> /\ tolerance = 0
    /\ CleanIdle
    /\ json = ScenarioB /\ conv_dry_run = FALSE /\ ConvIdle /\ MainIdle

\* a call of geohash_to_latlon
SpecDecode == InitDecode /\ [][Decode]_vars

\* a run of convert_json_to_fit.py on up to MaxFiles files
InitMain ==
    /\ program = "convert_json_to_fit"
    /\ sorted_json_files \in SeqsUpTo(MainInputs, MaxFiles)
    /\ to_convert = sorted_json_files
    /\ success_count = 0 /\ fail_count = 0
    /\ conv_dry_run \in BOOLEAN
    /\ json = ScenarioB
    /\ cpc = "main" /\ records = <<>> /\ config = NoConfig
    /\ record_index = 0 /\ written = None /\ result = "None"
    /\ dir = {} /\ decode = <<>> /\ scanOrder = <<>> /\ tolerance = 0
    /\ CleanIdle /\ PureIdle

NextMain == NextConvert \/ CallConvert \/ CountResult \/ Summary

SpecMain == InitMain /\ [][NextMain]_vars

\* main runs on to its end
FairMain == SpecMain /\ WF_vars(NextMain)

\* a run of clean_duplicates.py
SpecClean == InitClean /\ [][NextClean]_vars

\* a run of clean_duplicates.py that may be killed once
NextCrash == NextClean \/ Interrupt

SpecCrash == InitClean /\ [][NextCrash]_vars

\* a call of convert_json_to_fit
SpecConvert == InitConvert /\ [][NextConvert]_vars

\* a run of either script
Init == InitClean \/ InitConvert
Next == NextClean \/ NextConvert
Spec == Init /\ [][Next]_vars

-----------------------------------------------------------------------------
(* Properties of clean_duplicates.py *)

\* the activity files of a directory, and their start timestamps
Activities(d) == {f \in d \cap FitIds : decode[f].kind = "session"}
StartOf(f) == decode[f].start

Members(g) == {g.group[n].path : n \in DOMAIN g.group}
SameGroup(x, y) == \E n \in DOMAIN groups : {x, y} \subseteq Members(groups[n])
PriorityOf(f) == classify_source(FileName(f))

\* C1 (as claimed): once a confirmed run has gone through, the analysis of
\* the surviving files reports no duplicate group and nothing to delete.
C1_Idempotent ==
    (prior_run /\ pc = "summary") => (groups = <<>> /\ files_to_delete = <<>>)

\* C5 (as claimed): two activity files of the scanned batch are in the same
\* duplicate group if and only if their start timestamps differ by at most
\* the tolerance.
C5_PairwiseTolerance ==
    pc = "summary" =>
        \A x, y \in Activities(dir) :
            x # y => (SameGroup(x, y) <=> Abs(StartOf(x) - StartOf(y)) <= tolerance)

\* C5 (amended): files further apart than the tolerance are never in the same
\* group; a file at most the tolerance (exactly the tolerance included) away
\* from an anchor is in the anchor's group unless the group of an earlier
\* anchor holds it.
C5_AnchorTolerance ==
    pc = "summary" =>
        LET anchors == find_duplicates(dir, tolerance).anchors
            Taken(n) == UNION {Members(g) : g \in
                            {h \in Range(groups) :
                                \E m \in 1..(n - 1) : anchors[m] \in Members(h)}}
        IN  /\ \A x, y \in Activities(dir) :
                   Abs(StartOf(x) - StartOf(y)) > tolerance => ~SameGroup(x, y)
            /\ \A n \in DOMAIN anchors : \A y \in Activities(dir) \ {anchors[n]} :
                   Abs(StartOf(anchors[n]) - StartOf(y)) <= tolerance
                       => (SameGroup(anchors[n], y) \/ y \in Taken(n))

\* C5 witness: a group whose members are exactly the tolerance apart, beside
\* a pair within the tolerance that is split over the group's border.
C5_Witness ==
    /\ pc = "summary" /\ tolerance > 0
    /\ \E x, y, z \in Activities(dir) :
        /\ SameGroup(x, y) /\ Abs(StartOf(x) - StartOf(y)) = tolerance
        /\ ~SameGroup(y, z) /\ Abs(StartOf(y) - StartOf(z)) <= tolerance

\* C6: every file marked for deletion is in a reported group of two or more
\* files of which exactly one is kept; kept and deleted files are disjoint; a
\* file with no other file within the tolerance is never marked.
C6_NeverDeletesSole ==
    pc = "summary" =>
        /\ \A f \in Range(files_to_delete) :
               \E n \in DOMAIN groups :
                   /\ f \in Members(groups[n])
                   /\ Cardinality(Members(groups[n])) >= 2
        /\ \A n \in DOMAIN groups :
               Cardinality(Members(groups[n]) \cap Range(files_to_keep)) = 1
        /\ Range(files_to_keep) \cap Range(files_to_delete) = {}
        /\ \A f \in Activities(dir) :
               (\A g \in Activities(dir) \ {f} :
                    Abs(StartOf(f) - StartOf(g)) > tolerance)
                   => f \notin Range(files_to_delete)

\* C6 witness: files are marked for deletion while another activity file
\* stands alone.
C6_Witness ==
    /\ pc = "summary" /\ files_to_delete # <<>>
    /\ \E f \in Activities(dir) :
           \A g \in Activities(dir) \ {f} :
               Abs(StartOf(f) - StartOf(g)) > tolerance

\* Scenario A: alice@example.com_123.fit at t=1000 and
\* 2024-01-01-08_00-77.fit at t=1003, tolerance 5
ScenarioA ==
    LET file_times == <<[path |-> 2, time |-> 1003,
                         priority |-> classify_source(FileName(2))],
                        [path |-> 1, time |-> 1000,
                         priority |-> classify_source(FileName(1))]>>
        pass == GroupFrom(SortBy(file_times, "time"), 5, 1, {},
                          [groups |-> <<>>, anchors |-> <<>>])
    IN  display_duplicates(pass.groups)

\* C7: the survivor of every group has the lowest priority number of the
\* group and every other member is marked for deletion; in Scenario A there
\* is one group, the '@' export is kept and the date-named file deleted.
C7_LowestPriorityKept ==
    /\ pc = "summary" =>
        \A n \in DOMAIN groups :
            /\ files_to_keep[n] \in Members(groups[n])
            /\ \A f \in Members(groups[n]) :
                   PriorityOf(files_to_keep[n]) <= PriorityOf(f)
            /\ Members(groups[n]) \ {files_to_keep[n]} \subseteq Range(files_to_delete)
    /\ PriorityOf(1) = 1 /\ PriorityOf(2) = 2 /\ PriorityOf(3) = 3
    /\ Len(ScenarioA.groups) = 1
    /\ ScenarioA.files_to_keep = <<1>> /\ ScenarioA.files_to_delete = <<2>>

\* C7 witness: a group whose anchor is not the survivor.
C7_Witness ==
    /\ pc = "summary"
    /\ \E n \in DOMAIN groups :
           /\ files_to_keep[n] # find_duplicates(dir, tolerance).groups[n].group[1].path
           /\ Cardinality(Members(groups[n])) >= 3

\* C9: a binary file whose decoding raises, or that holds no session with a
\* start time, yields None, is listed in health_files and in no group, and
\* every other binary file of the directory is still classified.
C9_DecodeFailureIsHealth ==
    pc = "summary" =>
        LET found == find_duplicates(dir, tolerance)
            timed == {found.file_times[i].path : i \in DOMAIN found.file_times}
        IN  /\ \A f \in dir \cap FitIds :
                   decode[f].kind # "session" =>
                       /\ get_fit_start_time(f) = None
                       /\ f \in Range(health_files)
                       /\ f \notin timed
                       /\ \A n \in DOMAIN groups : f \notin Members(groups[n])
                       /\ f \notin Range(files_to_keep) \cup Range(files_to_delete)
            /\ \A f \in Activities(dir) :
                   f \in timed /\ f \notin Range(health_files)

\* C9 witness: a file whose decoding raised was scanned before two activity
\* files that were grouped.
C9_Witness ==
    /\ pc = "summary" /\ groups # <<>>
    /\ \E f \in dir \cap FitIds :
           /\ decode[f].kind = "error"
           /\ f \in Range(health_files)
           /\ \E g \in Range(files_to_delete) :
                  \E i, j \in DOMAIN scanOrder :
                      i < j /\ scanOrder[i] = f /\ scanOrder[j] = g

\* the groups found in file_times hold the anchor invariant: two members or
\* more; the first member is an anchor, stands in file_times before every
\* other member and starts no later; the group's timestamp is the anchor's;
\* every member starts at most tol away from the anchor
AnchorInvariant(found, tol) ==
    \A n \in DOMAIN found.groups :
        LET g == found.groups[n]
            IndexOf(path) == CHOOSE i \in DOMAIN found.file_times :
                                 found.file_times[i].path = path
        IN  /\ Len(g.group) >= 2
            /\ g.group[1].path \in Range(found.anchors)
            /\ g.timestamp = g.group[1].time
            /\ \A m \in DOMAIN g.group :
                   /\ g.group[m] = found.file_times[IndexOf(g.group[m].path)]
                   /\ m > 1 => IndexOf(g.group[1].path) < IndexOf(g.group[m].path)
                   /\ g.group[1].time <= g.group[m].time
                   /\ Abs(g.group[m].time - g.timestamp) <= tol

\* two members of a group, neither the anchor, start more than tol apart
Spread(found, tol) ==
    \E n \in DOMAIN found.groups :
        \E a, b \in 2..Len(found.groups[n].group) :
            Abs(found.groups[n].group[a].time - found.groups[n].group[b].time) > tol

\* C22 as stated: after the analysis, the groups of find_duplicates hold the
\* anchor invariant; and for some start times of the binary files and some
\* tolerance of the model, a group holds two members, neither the anchor,
\* that start more than the tolerance apart.
C22_AnchorOnly ==
    /\ pc = "summary" =>
           AnchorInvariant(find_duplicates(dir, tolerance), tolerance)
    /\ \E start \in [FitIds -> 0..MaxTime], tol \in 0..MaxTol :
           LET ids == SelectSeq([i \in Ids |-> i], LAMBDA f : f \in FitIds)
               file_times == [i \in DOMAIN ids |->
                                 [path |-> ids[i], time |-> start[ids[i]],
                                  priority |-> classify_source(FileName(ids[i]))]]
               pass == GroupFrom(SortBy(file_times, "time"), tol, 1, {},
                                 [groups |-> <<>>, anchors |-> <<>>])
           IN  Spread(pass, tol)

\* C22 amended: after the analysis, the groups of find_duplicates hold the
\* anchor invariant, their files are the activity files at their decoded
\* start times, and no two members of a group start more than the
\* tolerance apart.
C22_AnchorInvariant ==
    pc = "summary" =>
        LET found == find_duplicates(dir, tolerance)
        IN  /\ AnchorInvariant(found, tolerance)
            /\ \A i \in DOMAIN found.file_times :
                   /\ found.file_times[i].path \in Activities(dir)
                   /\ found.file_times[i].time = StartOf(found.file_times[i].path)
            /\ \A n \in DOMAIN found.groups :
                   Members(found.groups[n]) = Members(groups[n])
            /\ ~Spread(found, tolerance)

\* C22 witness: a group of an anchor and two later members, one of them
\* exactly the tolerance after the anchor, while a file within the
\* tolerance of that member is left out of the group.
C22_Witness ==
    /\ pc = "summary" /\ tolerance > 0
    /\ \E n \in DOMAIN groups :
           LET g == find_duplicates(dir, tolerance).groups[n]
           IN  /\ Len(g.group) = 3
               /\ g.group[3].time = g.timestamp + tolerance
               /\ \E f \in Activities(dir) \ Members(g) :
                      Abs(StartOf(f) - g.group[3].time) <= tolerance

\* no entry of the sequence occurs twice
NoRepeat(s) == \A a, b \in DOMAIN s : s[a] = s[b] => a = b

\* C26: after the analysis, every binary file of the directory is listed
\* once, either among the health files or among the activity files of
\* find_duplicates and never in both; no file occurs twice in a group or in
\* two groups; no file is visited twice as an anchor, and every activity
\* file is an anchor or a later member of a group, never both.
C26_ClassifiedOnce ==
    pc = "summary" =>
        LET found == find_duplicates(dir, tolerance)
            paths == [i \in DOMAIN found.file_times |-> found.file_times[i].path]
            later == UNION {Members(found.groups[n]) \ {found.groups[n].group[1].path} :
                               n \in DOMAIN found.groups}
        IN  /\ health_files = found.health_files
            /\ NoRepeat(paths) /\ NoRepeat(health_files)
            /\ Range(paths) \cup Range(health_files) = dir \cap FitIds
            /\ Range(paths) \cap Range(health_files) = {}
            /\ Range(paths) = Activities(dir)
            /\ \A n \in DOMAIN found.groups :
                   /\ NoRepeat(found.groups[n].group)
                   /\ Cardinality(Members(found.groups[n])) = Len(found.groups[n].group)
                   /\ Members(found.groups[n]) = Members(groups[n])
                   /\ \A m \in DOMAIN found.groups :
                          m # n => Members(found.groups[n])
                                       \cap Members(found.groups[m]) = {}
            /\ NoRepeat(found.anchors)
            /\ Range(found.anchors) \cup later = Range(paths)
            /\ Range(found.anchors) \cap later = {}

\* C26 witness: the analysis has found a health file, a group of two
\* activity files, and an activity file that was visited as an anchor and is
\* in no group.
C26_Witness ==
    /\ pc = "summary"
    /\ health_files # <<>>
    /\ Len(groups) = 1 /\ Len(groups[1].group) = 2
    /\ \E f \in Activities(dir) :
           /\ f \notin Members(groups[1])
           /\ f \in Range(find_duplicates(dir, tolerance).anchors)

\* the member of the group that has the lowest priority number and, among
\* those, starts first, files of equal start being taken in the order of the
\* sequence order
FirstOfBest(g, order) ==
    LET Pos(f) == CHOOSE i \in DOMAIN order : order[i] = f
        best == {f \in Members(g) :
                    \A h \in Members(g) : PriorityOf(f) <= PriorityOf(h)}
    IN  CHOOSE f \in best :
            \A h \in best \ {f} :
                \/ StartOf(f) < StartOf(h)
                \/ StartOf(f) = StartOf(h) /\ Pos(f) < Pos(h)

\* of every group the file kept is FirstOfBest, which is the anchor when the
\* anchor has the lowest priority number; the other members and no more are
\* marked to delete
TieBreak(order) ==
    /\ Len(files_to_keep) = Len(groups)
    /\ \A n \in DOMAIN groups :
           LET anchor == find_duplicates(dir, tolerance).groups[n].group[1].path
           IN  /\ files_to_keep[n] = FirstOfBest(groups[n], order)
               /\ (\A h \in Members(groups[n]) :
                       PriorityOf(anchor) <= PriorityOf(h))
                      => files_to_keep[n] = anchor
               /\ files_to_keep[n] \in Members(groups[n])
               /\ files_to_keep[n] \notin Range(files_to_delete)
               /\ Members(groups[n]) \ {files_to_keep[n]} \subseteq Range(files_to_delete)
    /\ NoRepeat(files_to_delete)
    /\ Len(files_to_delete) + Len(files_to_keep)
           = Cardinality(UNION {Members(groups[n]) : n \in DOMAIN groups})

\* C27: after the analysis, the survivor of every group is the member that
\* comes first among those of the lowest priority number, by start time
\* and, at equal start times, by the order of the list find_duplicates
\* scans (the files named *.fit as the directory lists them, then the files
\* named *.FIT); it is the anchor when the anchor has the lowest priority
\* number, and exactly one member of each group survives.
C27_TieBreak ==
    pc = "summary" =>
        TieBreak(Glob(dir, FitSuffix) \o Glob(dir, FitSuffixUpper))

\* C27 witness: a group of two files of the same priority number, of which
\* the one that starts first is last in the list find_duplicates scans; it
\* is kept and the other one is marked to delete.
C27_Witness ==
    /\ pc = "summary"
    /\ \E n \in DOMAIN groups :
           \E f, h \in Members(groups[n]) :
               /\ Len(groups[n].group) = 2
               /\ PriorityOf(f) = PriorityOf(h)
               /\ StartOf(f) < StartOf(h)
               /\ \E a, b \in DOMAIN scanOrder :
                      a < b /\ scanOrder[a] = h /\ scanOrder[b] = f
               /\ files_to_keep[n] = f
               /\ h \in Range(files_to_delete)

\* a binary file of directory d has the stem of f, letter case set aside
HasBinary(d, f) ==
    \E g \in d : IsFit(g) /\ Lower(Stem(FileName(g))) = Lower(Stem(FileName(f)))

\* the lists are a partition of the JSON files of d by HasBinary
PartitionsJson(d, sidecars, orphans) ==
    /\ Range(sidecars) \cup Range(orphans) = {f \in d : IsJson(f)}
    /\ Range(sidecars) \cap Range(orphans) = {}
    /\ Cardinality(Range(sidecars)) = Len(sidecars)
    /\ Cardinality(Range(orphans)) = Len(orphans)
    /\ \A f \in Range(sidecars) : HasBinary(d, f)
    /\ \A f \in Range(orphans) : ~HasBinary(d, f)

\* C13: the sidecars and orphans that find_json_files returns are a
\* partition of the JSON files of the directory, a file being a sidecar
\* exactly when a binary file of the directory has its stem, letter case set
\* aside.
C13_SidecarIffSameStem ==
    pc \in {"summary", "found"} =>
        PartitionsJson(dir, json_sidecars, json_orphans)

\* C13 witness: find_json_files has returned on a directory that holds
\* run.json next to Run.FIT, and trail.json with no binary file of that stem.
C13_Witness ==
    /\ pc = "found"
    /\ json_sidecars = <<5>> /\ json_orphans = <<6>>
    /\ 4 \in dir /\ Stem(FileName(4)) # Stem(FileName(5))

\* C14: classify_source gives priority 1 to a name that holds "@", whatever
\* else it holds; if not, priority 2 to a name of more than 10 characters
\* with "-" at positions 4 and 7, counted from 0; and priority 3 to every
\* other name.
C14_FirstMatchWins ==
    classify_ret # None =>
        LET name == classify_arg
            at   == \E n \in DOMAIN name : name[n] = "@"
            date == Len(name) > 10 /\ name[4 + 1] = "-" /\ name[7 + 1] = "-"
        IN  /\ at => Val(classify_ret) = 1
            /\ (~at /\ date) => Val(classify_ret) = 2
            /\ (~at /\ ~date) => Val(classify_ret) = 3

\* C14 witness: classify_source has returned 1 for a name of more than 10
\* characters that holds "@" and has "-" at positions 4 and 7.
C14_Witness ==
    /\ classify_ret = Some(1)
    /\ Len(classify_arg) > 10 /\ classify_arg[1] = "@"
    /\ classify_arg[5] = "-" /\ classify_arg[8] = "-"

\* the activity files a confirmed run that is not interrupted leaves in the
\* directory the script is first started on
UninterruptedSurvivors ==
    Activities(Ids)
        \ Range(display_duplicates(find_duplicates(Ids, tolerance).groups)
                    .files_to_delete)

\* C19 (as claimed): when a confirmed run was killed after some of its
\* deletions and moves, the first confirmed run that then goes through
\* leaves the activity files that the run would have left had it not been
\* killed.
C19_RerunAfterCrash ==
    (interrupted /\ ~prior_run /\ pc = "del_dups" /\ k > Len(files_to_delete))
        => Activities(dir) = UninterruptedSurvivors

-----------------------------------------------------------------------------
(* Properties of convert_json_to_fit.py *)

Slots == 0..4

\* positions in FITWriter.records of the definition and data blocks of a slot
DefinitionsOf(slot) == {n \in DOMAIN records : records[n][1] = 64 + slot}
DataOf(slot) == {n \in DOMAIN records : records[n][1] = slot}

\* C2 (as claimed): the definition block of every message kind is emitted
\* once, before the kind's first data block, and never again.
C2_DefinitionOnce ==
    \A slot \in Slots :
        /\ Cardinality(DefinitionsOf(slot)) <= 1
        /\ \A n \in DataOf(slot) : \E m \in DefinitionsOf(slot) : m < n

\* C3: at every point of the output, a data block of slot k comes after a
\* definition block of slot k.
C3_DefinitionPrecedesData ==
    \A n \in DOMAIN records :
        records[n][1] < 64 =>
            /\ records[n][1] \in Slots
            /\ \E m \in 1..(n - 1) : records[m][1] = 64 + records[n][1]

\* C3 witness: a conversion wrote a file that holds telemetry records.
C3_Witness ==
    /\ cpc = "returned" /\ written # None
    /\ Cardinality(DataOf(2)) >= 2

\* C4 (as claimed): a source record whose stream has a HeartRate series and no
\* Duration series is converted to as many telemetry records as the series
\* has entries, record n timed at start + n.
C4_SamplesFromChannel ==
    (cpc = "returned" /\ written # None /\ json.stream.Duration = <<>>) =>
        /\ Cardinality(DataOf(2)) = Len(json.stream.HeartRate)
        /\ \A n \in DataOf(2) :
               \E m \in 0..(Len(json.stream.HeartRate) - 1) :
                   SubSeq(records[n], 2, 5) = LEBytes(StartTime(json) + m, 4)

\* the bytes of field number num in a data block laid out by definition def;
\* <<>> when the definition does not declare the field
RECURSIVE FieldFrom(_, _, _, _, _)
FieldFrom(def, data, num, f, offset) ==
    IF f > def[6] THEN <<>>
    ELSE IF def[4 + 3 * f] = num
    THEN SubSeq(data, offset, offset + def[5 + 3 * f] - 1)
    ELSE FieldFrom(def, data, num, f + 1, offset + def[5 + 3 * f])

FieldOf(def, data, num) == FieldFrom(def, data, num, 1, 2)

\* the source value of a channel at index n (from 0): None when the series
\* is shorter or holds null there
SourceAt(series, n) == IF n < Len(series) THEN series[n + 1] ELSE None

Zeros(bytes) == \A b \in DOMAIN bytes : bytes[b] = 0

\* C10: in every telemetry record, for every channel the record definition
\* declares, a null or missing source value is written as the reserved
\* pattern of the field's type and a source value of 0 as the number 0.
C10_AbsentIsNotZero ==
    \A n \in DataOf(2) :
        LET def   == records[CHOOSE m \in DefinitionsOf(2) : TRUE]
            index == Cardinality({m \in DataOf(2) : m < n})
            Field(num) == FieldOf(def, records[n], num)
            Channel(num, series, absent) ==
                Field(num) # <<>> =>
                    /\ SourceAt(series, index) = None => Field(num) = absent
                    /\ SourceAt(series, index) = Some(0) =>
                           (Zeros(Field(num)) /\ Len(Field(num)) = Len(absent))
            geohash == SourceAt(json.stream.Geohashes, index)
        IN  /\ Channel(3, json.stream.HeartRate, <<255>>)
            /\ Channel(4, json.stream.Cadence, <<255>>)
            /\ Channel(7, PowerData(json), <<255, 255>>)
            /\ Channel(13, json.stream.Temperature, <<127>>)
            /\ Field(0) # <<>> =>
                   IF geohash = None \/ geohash = Some(<<>>)
                   THEN /\ Field(0) = <<255, 255, 255, 127>>
                        /\ Field(1) = <<255, 255, 255, 127>>
                   ELSE /\ geohash_to_latlon(Val(geohash)).lat = Float(0) => Zeros(Field(0))
                        /\ geohash_to_latlon(Val(geohash)).lon = Float(0) => Zeros(Field(1))
                        /\ Len(Field(0)) = 4 /\ Len(Field(1)) = 4

\* C10 witness: a written file whose telemetry records hold a null heart
\* rate, a heart rate of 0, a missing power value and a blank position.
C10_Witness ==
    /\ cpc = "returned" /\ written # None
    /\ config.has_hr /\ config.has_power /\ config.has_gps
    /\ config.has_cadence /\ config.has_temperature
    /\ \E a, b \in 0..(Cardinality(DataOf(2)) - 1) :
        /\ SourceAt(json.stream.HeartRate, a) = None
        /\ SourceAt(json.stream.HeartRate, b) = Some(0)
        /\ a >= Len(PowerData(json))
        /\ SourceAt(json.stream.Geohashes, b) = Some(<<>>)

\* the number a little-endian field holds
RECURSIVE FromLE(_)
FromLE(bytes) ==
    IF bytes = <<>> THEN 0 ELSE bytes[1] + 256 * FromLE(Tail(bytes))

\* the data blocks of a slot, in the order of the output
DataBlocks(slot) == SelectSeq(records, LAMBDA b : b[1] = slot)

\* the duration of a source record by the precedence of the specification:
\* duration, else elapsedTime, else the greatest non-null entry of the
\* Duration series, else zero
ResolvedDuration(data) ==
    IF data.duration # None THEN Val(data.duration)
    ELSE IF data.elapsedTime # None THEN Val(data.elapsedTime)
    ELSE IF NonNull(data.stream.Duration) # <<>>
    THEN MaxOf(NonNull(data.stream.Duration))
    ELSE 0

\* a source record that has a time, whose duration and elapsedTime are not
\* zero when present, and whose only series is Duration
OnlyDuration(data) ==
    /\ Truthy(data.time)
    /\ data.duration # Some(0) /\ data.elapsedTime # Some(0)
    /\ data.stream = [NoStream EXCEPT !.Duration = data.stream.Duration]

\* C11 (as claimed): a call that is not a dry run, on a record that has a
\* time, no zero duration field and no series but Duration, returns True, and the stop event and the
\* session carry the timestamp start + resolved duration, the duration being
\* resolved by the precedence duration, elapsedTime, greatest non-null entry
\* of the Duration series, zero.
C11_DurationResolved ==
    (Converting /\ cpc = "returned" /\ ~conv_dry_run /\ OnlyDuration(json)) =>
        /\ result = "True"
        /\ Len(DataBlocks(1)) = 2
        /\ FromLE(SubSeq(DataBlocks(1)[2], 2, 5))
               = Val(json.time) - FitEpochOffset + ResolvedDuration(json)
        /\ Len(DataBlocks(3)) = 1
        /\ FromLE(SubSeq(DataBlocks(3)[1], 2, 5))
               = Val(json.time) - FitEpochOffset + ResolvedDuration(json)

\* the values of a series all lie in lo..hi
InRange(series, lo, hi) ==
    \A n \in DOMAIN series :
        series[n] # None => (lo <= Val(series[n]) /\ Val(series[n]) <= hi)

\* every value of the telemetry series fits the field it is written to
SeriesFit(data) ==
    /\ InRange(data.stream.Duration, 0, 1000000)
    /\ InRange(data.stream.HeartRate, 0, 255)
    /\ InRange(data.stream.Cadence, 0, 255)
    /\ InRange(PowerData(data), 0, 65535)
    /\ InRange(data.stream.Temperature, -128, 127)

\* C12: telemetry record i of the output is timed at start + Duration[i], or
\* at start + i when that entry is null, and holds for each of heart rate,
\* cadence, power and temperature the entry i of the channel's own series,
\* the reserved pattern standing for an entry that is null or beyond the end
\* of the series, and for the position the decoded entry i of Geohashes, the
\* reserved pattern standing for a null or blank entry; a channel that is
\* not declared holds no value at i; and a call whose series values all fit
\* their fields does not fail before the telemetry records are written.
C12_AlignedByIndex ==
    /\ \A n \in DataOf(2) :
        LET def   == records[CHOOSE m \in DefinitionsOf(2) : TRUE]
            index == Cardinality({m \in DataOf(2) : m < n})
            Field(num) == FieldOf(def, records[n], num)
            Channel(num, series, size, absent) ==
                LET v == SourceAt(series, index)
                IN  IF Field(num) = <<>> THEN v = None
                    ELSE Field(num) = IF v = None THEN absent
                                      ELSE TwosComplement(Val(v), size)
            duration == SourceAt(json.stream.Duration, index)
            hash == SourceAt(json.stream.Geohashes, index)
        IN  /\ index < Len(json.stream.Duration)
            /\ FromLE(Field(253)) = Val(json.time) - FitEpochOffset
                   + (IF duration # None THEN Val(duration) ELSE index)
            /\ Channel(3, json.stream.HeartRate, 1, <<255>>)
            /\ Channel(4, json.stream.Cadence, 1, <<255>>)
            /\ Channel(7, PowerData(json), 2, <<255, 255>>)
            /\ Channel(13, json.stream.Temperature, 1, <<127>>)
            /\ IF Field(0) = <<>>
               THEN Field(1) = <<>> /\ (hash = None \/ hash = Some(<<>>))
               ELSE IF hash = None \/ hash = Some(<<>>)
               THEN /\ Field(0) = <<255, 255, 255, 127>>
                    /\ Field(1) = <<255, 255, 255, 127>>
               ELSE /\ Field(0) = TwosComplement(
                            Semicircles(geohash_to_latlon(Val(hash)).lat), 4)
                    /\ Field(1) = TwosComplement(
                            Semicircles(geohash_to_latlon(Val(hash)).lon), 4)
    /\ (Converting /\ SeriesFit(json) /\ cpc = "returned" /\ result = "False"
            /\ Truthy(json.time)) =>
           Cardinality(DataOf(2)) = Len(json.stream.Duration)

\* C12 witness: a written file with four telemetry records, made from a
\* Duration series with a null entry, a shorter heart-rate series that
\* starts with a null, and a cadence series with a null between two values.
C12_Witness ==
    /\ cpc = "returned" /\ written # None
    /\ Cardinality(DataOf(2)) = 4
    /\ json.stream.Duration[2] = None
    /\ Len(json.stream.HeartRate) = 2
    /\ json.stream.HeartRate[1] = None /\ json.stream.HeartRate[2] # None
    /\ json.stream.Cadence # <<>> /\ json.stream.Cadence[2] = None

\* C15: a call of convert_json_to_fit on a record without time returns
\* False with no block appended and no file written, in a dry run and in a
\* real run; main counts the call as failed and takes no file off the list
\* of those still to convert; and the run goes on to convert them all.
C15_MissingTimeSkipped ==
    /\ []((cpc = "returned" /\ ~Truthy(json.time)) =>
              (result = "False" /\ written = None /\ records = <<>>))
    /\ [][(cpc = "returned" /\ ~Truthy(json.time)) =>
              /\ fail_count' = fail_count + 1
              /\ success_count' = success_count
              /\ to_convert' = to_convert]_vars
    /\ (cpc = "returned" /\ ~Truthy(json.time))
           ~> (cpc = "exit" /\ to_convert = <<>>)

\* C15 witness: a real run has converted one file, has counted a second
\* file, which has no time, as failed, and has a third file left to convert.
C15_Witness ==
    /\ cpc = "main" /\ ~conv_dry_run
    /\ ~Truthy(json.time)
    /\ success_count = 1 /\ fail_count = 1
    /\ to_convert # <<>>

\* all the bytes of the blocks appended to the writer, in append order
MessageStream == Concat(records)

\* C16: a written file is a header of 14 bytes, the blocks of the writer in
\* the order they were appended, and 2 bytes; bytes 4..7 hold the length of
\* the blocks, bytes 8..11 the text ".FIT", bytes 12..13 the checksum of
\* bytes 0..11, and the last 2 bytes the checksum of the blocks alone.
C16_Framing ==
    written # None =>
        LET file == Val(written)
            size == Len(MessageStream)
        IN  /\ Len(file) = 14 + size + 2
            /\ file[1] = 14
            /\ FromLE(SubSeq(file, 5, 8)) = size
            /\ SubSeq(file, 9, 12) = <<46, 70, 73, 84>>
            /\ FromLE(SubSeq(file, 13, 14)) = _crc16(SubSeq(file, 1, 12))
            /\ SubSeq(file, 15, 14 + size) = MessageStream
            /\ FromLE(SubSeq(file, 15 + size, 16 + size)) = _crc16(MessageStream)

\* C16 witness: a written file that holds telemetry records with a position.
C16_Witness ==
    /\ cpc = "returned" /\ written # None
    /\ config.has_gps /\ Cardinality(DataOf(2)) >= 3
    /\ Len(Val(written)) > 200

C18_AppendOnly ==
    [][/\ Len(records') >= Len(records)
       /\ SubSeq(records', 1, Len(records)) = records
       /\ written' # written =>
              /\ records' = records
              /\ SubSeq(Val(written'), 15, Len(Val(written')) - 2)
                     = Concat(records)]_vars

\* C18 witness: a file has been written from a writer that every add_*
\* operation appended to, add_record three times or more.
C18_Witness ==
    /\ cpc = "returned" /\ written # None
    /\ \A slot \in Slots : DefinitionsOf(slot) # {} /\ DataOf(slot) # {}
    /\ Len(DataBlocks(2)) >= 3
    /\ Len(records) >= 13

\* the characters of a geohash
GeohashAlphabet ==
    {"0", "1", "2", "3", "4", "5", "6", "7", "8", "9", "b", "c", "d", "e",
     "f", "g", "h", "j", "k", "m", "n", "p", "q", "r", "s", "t", "u", "v",
     "w", "x", "y", "z"}

\* C20: geohash_to_latlon returns, for every string, what it returns for the
\* lower-cased string without the characters that are not of the geohash
\* alphabet; that is the midpoint (0, 0) when no character is left, and
\* (22.5, 22.5) degrees when "s" alone is left.
C20_TolerantDecode ==
    geohash_ret # None =>
        LET kept == SelectSeq(Lower(geohash_arg),
                              LAMBDA c : c \in GeohashAlphabet)
        IN  /\ Val(geohash_ret) = geohash_to_latlon(kept)
            /\ kept = <<>> => Val(geohash_ret) = [lat |-> Float(0), lon |-> Float(0)]
            /\ kept = <<"s">> =>
                   Val(geohash_ret) = [lat |-> Midpoint(Float(0), Float(45)),
                                       lon |-> Midpoint(Float(0), Float(45))]

\* C20 witness: a string with a character outside the alphabet between two
\* characters of it, one of them in upper case, has been decoded.
C20_Witness ==
    /\ geohash_ret # None
    /\ geohash_arg = <<"S", "!", "9">>
    /\ Val(geohash_ret) = geohash_to_latlon(<<"s", "9">>)
    /\ Val(geohash_ret) # geohash_to_latlon(<<"s">>)

\* C23 (as claimed): in the session block, each of the fields calories,
\* average and greatest heart rate, average cadence, average power and
\* distance holds the number 0 when the source value is 0 and the reserved
\* pattern of its type when the source value is null; the elapsed and the
\* timer time of the session block and the timer time of the activity block
\* hold the number 0 when the resolved duration is 0.
C23_ZeroIsNotAbsent ==
    /\ \A n \in DataOf(3) :
           LET def == records[CHOOSE m \in DefinitionsOf(3) : TRUE]
               Field(num) == FieldOf(def, records[n], num)
               Kept(num, source, absent) ==
                   /\ Field(num) # <<>>
                   /\ source = Some(0) => Zeros(Field(num))
                   /\ source = None => Field(num) = absent
           IN  /\ Kept(11, json.summary.kcal, <<255, 255>>)
               /\ Kept(16, json.summary.hrAvg, <<255>>)
               /\ Kept(17, json.summary.hrMax, <<255>>)
               /\ Kept(18, json.summary.cadence, <<255>>)
               /\ Kept(20, json.summary.power, <<255, 255>>)
               /\ Kept(9, json.summary.distance, <<255, 255, 255, 255>>)
               /\ ResolvedDuration(json) = 0 =>
                      Zeros(Field(7)) /\ Zeros(Field(8))
    /\ \A n \in DataOf(4) :
           LET def == records[CHOOSE m \in DefinitionsOf(4) : TRUE]
           IN  ResolvedDuration(json) = 0 => Zeros(FieldOf(def, records[n], 0))

\* the calls of convert_json_to_fit main has made
Taken == success_count + fail_count + (IF cpc \in {"main", "exit"} THEN 0 ELSE 1)

\* C25: main takes the files of the sorted list one by one from its head,
\* each exactly once: the files still to take are the list without the ones
\* taken, and the file of the latest call is the last one taken. Every call
\* that returns is counted, as converted when it returned True and as failed
\* otherwise; a call that ends by an exception returns False, and the run
\* goes on from a failed call to its end, where no file is left and
\* success_count + fail_count is the number of files of the list.
C25_FailuresIsolated ==
    /\ [](/\ Taken <= Len(sorted_json_files)
          /\ to_convert = SubSeq(sorted_json_files, Taken + 1, Len(sorted_json_files))
          /\ Taken > 0 => json = sorted_json_files[Taken]
          /\ cpc = "exit" => success_count + fail_count = Len(sorted_json_files)
          /\ (cpc = "returned" /\ Truthy(json.time) /\ ~conv_dry_run
                  /\ written = None) => result = "False")
    /\ [][(success_count' # success_count \/ fail_count' # fail_count
               \/ cpc = "returned") =>
              /\ cpc = "returned" /\ cpc' = "main"
              /\ IF result = "True"
                 THEN success_count' = success_count + 1 /\ fail_count' = fail_count
                 ELSE success_count' = success_count /\ fail_count' = fail_count + 1]_vars
    /\ (cpc = "returned" /\ result = "False" /\ Truthy(json.time))
           ~> (cpc = "exit" /\ to_convert = <<>>)

\* C25 witness: a real run has converted one file and has counted a second
\* one, whose conversion ended by an exception after blocks were appended, as
\* failed, and has a file left to convert.
C25_Witness ==
    /\ cpc = "main" /\ ~conv_dry_run
    /\ Truthy(json.time) /\ result = "False" /\ records # <<>> /\ written = None
    /\ success_count = 1 /\ fail_count = 1
    /\ to_convert # <<>>

\* the sum of the field sizes a definition block declares
RECURSIVE DeclaredSize(_, _)
DeclaredSize(def, f) ==
    IF f > def[6] THEN 0 ELSE def[5 + 3 * f] + DeclaredSize(def, f + 1)

\* the data block a definition block describes: the slot, then for every
\* declared field in turn the value of its number in its declared type;
\* <<>> when a value does not take the declared size
ByDefinition(def, ValueOf(_)) ==
    LET field == [f \in 1..def[6] |->
                     _encode_field(ValueOf(def[4 + 3 * f]), def[6 + 3 * f])]
    IN  IF \A f \in 1..def[6] :
               field[f].ok /\ Len(field[f].bytes) = def[5 + 3 * f]
        THEN <<def[1] - 64>> \o Concat([f \in 1..def[6] |-> field[f].bytes])
        ELSE <<>>

\* the value add_record is given for a field number of the record message
RecordValue(timestamp, sample, num) ==
    CASE num = 253 -> Some(timestamp)
      [] num = 0   -> IF sample.lat # None
                      THEN Some(Semicircles(Val(sample.lat))) ELSE None
      [] num = 1   -> IF sample.lon # None
                      THEN Some(Semicircles(Val(sample.lon))) ELSE None
      [] num = 3   -> sample.heart_rate
      [] num = 4   -> sample.cadence
      [] num = 7   -> sample.power
      [] num = 13  -> sample.temperature
      [] OTHER     -> None

\* the field numbers a definition block declares, in order
FieldNumbers(def) == [f \in 1..def[6] |-> def[4 + 3 * f]]

\* two samples: every value given, and none
FullSample ==
    [record_time |-> 1, lat |-> Some(Float(45)), lon |-> Some(Float(-90)),
     heart_rate |-> Some(120), cadence |-> Some(80), power |-> Some(250),
     temperature |-> Some(-5)]
EmptySample ==
    [record_time |-> 1, lat |-> None, lon |-> None, heart_rate |-> None,
     cadence |-> None, power |-> None, temperature |-> None]

\* C28: every data block of the writer comes after a definition block of
\* its slot and is as long as 1 + the sizes the latest of them declares; a
\* telemetry record is the slot followed by the values of its sample for the
\* declared fields, in the declared order, types and sizes; and where the
\* record definition is about to be appended, for each of the 32 settings
\* of the five flags add_record_definition declares the timestamp and the
\* fields of the flags set, in the order position, heart rate, cadence,
\* power, temperature, and add_record writes those.
C28_DataMatchesDefinition ==
    /\ \A n \in DOMAIN records :
           records[n][1] < 64 =>
               /\ \E m \in 1..(n - 1) : records[m][1] = 64 + records[n][1]
               /\ LET last == CHOOSE m \in 1..(n - 1) :
                                  /\ records[m][1] = 64 + records[n][1]
                                  /\ \A x \in (m + 1)..(n - 1) :
                                         records[x][1] # 64 + records[n][1]
                  IN  Len(records[n]) = 1 + DeclaredSize(records[last], 1)
    /\ \A n \in DataOf(2) :
           LET def    == records[CHOOSE m \in DefinitionsOf(2) : TRUE]
               index  == Cardinality({m \in DataOf(2) : m < n})
               sample == SampleOf(json, config, index)
               Given(num) == RecordValue(sample.record_time, sample, num)
           IN  records[n] = ByDefinition(def, Given)
    /\ cpc = "record_def" =>
           \A cfg \in [has_hr : BOOLEAN, has_cadence : BOOLEAN, has_power : BOOLEAN,
                       has_temperature : BOOLEAN, has_gps : BOOLEAN] :
               LET def == add_record_definition(cfg)[1].bytes
               IN  /\ FieldNumbers(def) =
                          <<253>> \o (IF cfg.has_gps THEN <<0, 1>> ELSE <<>>)
                                  \o (IF cfg.has_hr THEN <<3>> ELSE <<>>)
                                  \o (IF cfg.has_cadence THEN <<4>> ELSE <<>>)
                                  \o (IF cfg.has_power THEN <<7>> ELSE <<>>)
                                  \o (IF cfg.has_temperature THEN <<13>> ELSE <<>>)
                   /\ \A sample \in {FullSample, EmptySample} :
                          LET Given(num) == RecordValue(1, sample, num)
                              block == add_record(1, cfg, sample)[1].bytes
                          IN  /\ block = ByDefinition(def, Given)
                              /\ Len(block) = 1 + DeclaredSize(def, 1)

\* C28 witness: a written file holds a telemetry record of position, heart
\* rate, cadence, power and temperature, 17 bytes after the slot, and a
\* session block of 29 bytes after the slot.
C28_Witness ==
    /\ cpc = "returned" /\ written # None
    /\ config = [has_hr |-> TRUE, has_cadence |-> TRUE, has_power |-> TRUE,
                 has_temperature |-> TRUE, has_gps |-> TRUE]
    /\ \E n \in DataOf(2) : Len(records[n]) = 18
    /\ \E n \in DataOf(3) : Len(records[n]) = 30

\* the rows of the table that have the manufacturer and the product code,
\* or the manufacturer and the product id, of the FIT data
CodeMatches(fit, db) ==
    {row \in Range(db) : /\ fit.product_code # <<>>
                         /\ row.manufacturer = Lower(fit.manufacturer)
                         /\ row.product_code = Lower(fit.product_code)}
IdMatches(fit, db) ==
    {row \in Range(db) : /\ fit.product_id # None
                         /\ row.manufacturer = Lower(fit.manufacturer)
                         /\ row.product_id = fit.product_id}

\* the outcomes of a call with the FIT data on the table
Calls(fit, db) ==
    get_or_create_computer_model_from_fit_data(
        fit.manufacturer, fit.product_code, fit.product_id, fit.product_name, db)

\* C29 (as claimed): on every table that calls of
\* get_or_create_computer_model_from_fit_data have built, a call followed
\* by a call with the same arguments returns the same row both times, and
\* the second call adds no row; no two rows of the table have the same
\* manufacturer, product code, product id and name; a call returns a row
\* that matches by product code when there is one, and adds a row only
\* when no row matches by product code or by product id and a name is given.
C29_Idempotent ==
    /\ \A fit \in FitData :
           \A first \in Calls(fit, computer_models) :
               /\ \A again \in Calls(fit, first.db) :
                      again.db = first.db /\ again.existing = first.existing
               /\ CodeMatches(fit, computer_models) # {} =>
                      /\ first.existing # None
                      /\ Val(first.existing) \in CodeMatches(fit, computer_models)
               /\ first.db # computer_models =>
                      /\ CodeMatches(fit, computer_models) = {}
                      /\ IdMatches(fit, computer_models) = {}
                      /\ fit.product_name # <<>>
                      /\ first.db = Append(computer_models, Val(first.existing))
    /\ \A a, b \in DOMAIN computer_models :
           a # b => [computer_models[a] EXCEPT !.id = 0]
                        # [computer_models[b] EXCEPT !.id = 0]

\* the bytes, low first, of the number of the given bytes times scale plus
\* carry: as many bytes as the product needs, and no fewer than given
RECURSIVE TimesBytes(_, _, _)
TimesBytes(bytes, scale, carry) ==
    IF bytes = <<>>
    THEN IF carry = 0 THEN <<>>
         ELSE <<carry % 256>> \o TimesBytes(<<>>, scale, carry \div 256)
    ELSE LET t == Head(bytes) * scale + carry
         IN  <<t % 256>> \o TimesBytes(Tail(bytes), scale, t \div 256)

\* C24 (as claimed): in the session block, the distance field holds, for
\* every distance of the source, the four bytes of distance x 100, and the
\* elapsed and timer time fields hold, for every duration of the source other
\* than 0, the four bytes of duration x 1000, as does the timer time field of
\* the activity block; the product needs no fifth byte, and the four bytes
\* are never the reserved pattern FF FF FF FF.
C24_ScaledExact ==
    LET Stored(field, source, scale) ==
            LET product == TimesBytes(LEBytes(Val(source), 4), scale, 0)
            IN  /\ Len(product) = 4
                /\ field = product
                /\ field # <<255, 255, 255, 255>>
    IN  /\ \A n \in DataOf(3) :
               LET def == records[CHOOSE m \in DefinitionsOf(3) : TRUE]
                   Field(num) == FieldOf(def, records[n], num)
               IN  /\ json.summary.distance # None =>
                          Stored(Field(9), json.summary.distance, 100)
                   /\ Truthy(json.duration) =>
                          /\ Stored(Field(7), json.duration, 1000)
                          /\ Stored(Field(8), json.duration, 1000)
        /\ \A n \in DataOf(4) :
               LET def == records[CHOOSE m \in DefinitionsOf(4) : TRUE]
               IN  Truthy(json.duration) =>
                       Stored(FieldOf(def, records[n], 0), json.duration, 1000)

\* a + b and (a + b) / 2 as numbers, without the rounding of a float
ExactAdd(a, b) ==
    LET sum == IF a.neg = b.neg
               THEN [neg |-> a.neg, mag |-> MagAdd(a.mag, b.mag)]
               ELSE IF MagLess(a.mag, b.mag)
               THEN [neg |-> b.neg, mag |-> MagSub(b.mag, a.mag)]
               ELSE [neg |-> a.neg, mag |-> MagSub(a.mag, b.mag)]
    IN  [neg |-> sum.neg /\ sum.mag # <<0, 0, 0>>, mag |-> sum.mag]

ExactMid(a, b) ==
    LET sum == ExactAdd(a, b)
    IN  [neg |-> sum.neg,
         mag |-> <<(sum.mag[1] \div 2) + (sum.mag[2] % 2) * (Limb \div 2),
                   (sum.mag[2] \div 2) + (sum.mag[3] % 2) * (Limb \div 2),
                   sum.mag[3] \div 2>>]

\* a <= b, and the length b - a of an interval <<a, b>>
AtMost(a, b) == ~ExactAdd(b, [neg |-> ~a.neg /\ a.mag # <<0, 0, 0>>, mag |-> a.mag]).neg
Width(range) ==
    ExactAdd(range[2], [neg |-> ~range[1].neg /\ range[1].mag # <<0, 0, 0>>,
                        mag |-> range[1].mag])

\* x halved h times
RECURSIVE Halved(_, _)
Halved(x, h) ==
    IF h = 0 THEN x
    ELSE CHOOSE r \in {Halved(v, h - 1) : v \in {ExactMid(Float(0), x)}} : TRUE

\* the bits of a geohash, the highest bit of the first character first, and
\* of these the 1st, 3rd, ... (longitude) and the 2nd, 4th, ... (latitude)
HashBits(hash) ==
    [b \in 1..(5 * Len(hash)) |->
        (Base32Index(hash[((b - 1) \div 5) + 1]) \div (2 ^ (4 - ((b - 1) % 5)))) % 2]
LonBits(hash) ==
    [j \in 1..((5 * Len(hash) + 1) \div 2) |-> HashBits(hash)[2 * j - 1]]
LatBits(hash) ==
    [j \in 1..((5 * Len(hash)) \div 2) |-> HashBits(hash)[2 * j]]

\* the interval that is left of range by the bits from bit b on: a 1
\* keeps the upper half, a 0 the lower half
RECURSIVE Narrowed(_, _, _)
Narrowed(range, bits, b) ==
    IF b > Len(bits) THEN range
    ELSE CHOOSE r \in
             {Narrowed(v, bits, b + 1) :
                  v \in {IF bits[b] = 1
                         THEN <<ExactMid(range[1], range[2]), range[2]>>
                         ELSE <<range[1], ExactMid(range[1], range[2])>>}} : TRUE

\* the ranges geohash_to_latlon holds after its loops
RangesOf(hash) ==
    GeohashFrom(Lower(hash), 1,
                [lat_range |-> <<Float(-90), Float(90)>>,
                 lon_range |-> <<Float(-180), Float(180)>>,
                 is_lon |-> TRUE])

\* the ranges of hash are the halves its bits select, of the stated lengths
HalvedByBits(hash) ==
    LET n == Len(hash)
    IN  /\ RangesOf(hash).lon_range
               = Narrowed(<<Float(-180), Float(180)>>, LonBits(hash), 1)
        /\ RangesOf(hash).lat_range
               = Narrowed(<<Float(-90), Float(90)>>, LatBits(hash), 1)
        /\ Width(RangesOf(hash).lon_range)
               = Halved(Float(360), (5 * n + 1) \div 2)
        /\ Width(RangesOf(hash).lat_range) = Halved(Float(180), (5 * n) \div 2)

\* both ranges of hash are shorter than those of hash without its last
\* character
StrictlyNarrower(hash) ==
    LET before == RangesOf(SubSeq(hash, 1, Len(hash) - 1))
    IN  /\ MagLess(Width(RangesOf(hash).lon_range).mag,
                   Width(before.lon_range).mag)
        /\ MagLess(Width(RangesOf(hash).lat_range).mag,
                   Width(before.lat_range).mag)

\* both ranges of hash lie in those of hash without its last character,
\* and so in [-90, 90] and [-180, 180]
NotWider(hash) ==
    LET before == RangesOf(SubSeq(hash, 1, Len(hash) - 1))
        Within(in, out) == /\ AtMost(out[1], in[1]) /\ AtMost(in[1], in[2])
                           /\ AtMost(in[2], out[2])
    IN  /\ Within(RangesOf(hash).lon_range, before.lon_range)
        /\ Within(RangesOf(hash).lat_range, before.lat_range)
        /\ Within(RangesOf(hash).lon_range, <<Float(-180), Float(180)>>)
        /\ Within(RangesOf(hash).lat_range, <<Float(-90), Float(90)>>)

\* a geohash of the alphabet in lower case has been decoded
DecodedHash ==
    /\ geohash_ret # None /\ geohash_arg # <<>>
    /\ \A i \in DOMAIN geohash_arg : geohash_arg[i] \in GeohashAlphabet
    /\ Val(geohash_ret) =
           [lat |-> Midpoint(RangesOf(geohash_arg).lat_range[1],
                             RangesOf(geohash_arg).lat_range[2]),
            lon |-> Midpoint(RangesOf(geohash_arg).lon_range[1],
                             RangesOf(geohash_arg).lon_range[2])]

-----------------------------------------------------------------------------
(* Properties of both scripts *)

\* a step that deletes or moves a file, or creates a subdirectory or the
\* manifest
Destructive ==
    dir' # dir \/ subdirs' # subdirs \/ readme' # readme \/ moved' # moved

Reported ==
    [json_sidecars |-> json_sidecars, json_orphans |-> json_orphans,
     groups |-> groups, health_files |-> health_files,
     files_to_keep |-> files_to_keep, files_to_delete |-> files_to_delete]

\* what a dry run reports is what a real run computes on the directory
DryRunReportsTheSame ==
    (Running /\ dry_run /\ pc \in {"summary", "done"}) => Reported = Report(FALSE)

\* C8 (as claimed): files are deleted or moved and subdirectories or the
\* manifest created only when --dry-run is absent and the answer is exactly
\* 'yes'; convert_json_to_fit writes no file when dry_run is set; a dry run
\* reports the analysis of a real run.
C8_GatedByExactYes ==
    /\ [][/\ Destructive => (~dry_run /\ response = <<"y","e","s">>)
          /\ written' # written => ~conv_dry_run']_vars
    /\ []DryRunReportsTheSame

\* C8 (amended): as above, the answer being 'yes' once stripped of
\* surrounding whitespace and lower-cased.
C8_GatedByYes ==
    /\ [][/\ Destructive => (~dry_run /\ Lower(Strip(response)) = <<"y","e","s">>)
          /\ written' # written => ~conv_dry_run']_vars
    /\ []DryRunReportsTheSame

\* C8 witness: a run confirmed with " YES " has deleted and moved files.
C8_Witness ==
    /\ Running /\ pc = "done" /\ prior_run
    /\ response = <<" ","Y","E","S"," ">>
    /\ dir # Ids /\ subdirs = {HealthDir, OrphanDir} /\ moved # {}

=============================================================================
